---- MODULE Spec2Model ----
(***************************************************************************)
(* State-machine model of the s9_websocket client: one connection driven   *)
(* by one of three execution strategies (async worker with channels,       *)
(* non-blocking with callbacks, blocking with callbacks).                  *)
(*                                                                         *)
(* The protocol engine (tungstenite) is the environment: send succeeds or  *)
(* fails, read returns the next inbound message or one of its errors,      *)
(* can_write() is true while the engine is in its Active state, and        *)
(* close() / an inbound close frame leave the Active state.                *)
(***************************************************************************)
EXTENDS Integers, Sequences, FiniteSets, TLC

\* ------------------------------------------------------------------------
\* Bounds of the model
\* ------------------------------------------------------------------------
MaxIter == 2
MaxCalls == 2
MaxRuns == 2
MaxPayload == 1
MaxInbound == 1

\* ------------------------------------------------------------------------
\* Data: control commands, engine messages, read errors, events
\* ------------------------------------------------------------------------
Payloads == 1..MaxPayload

Strategies == {"async", "nonblocking", "blocking"}

CallbackStrategies == {"nonblocking", "blocking"}

SendKinds == {"SendText", "SendBinary", "SendPing", "SendPong"}

\* types.rs: enum ControlMessage
ControlMessage ==
    [k : SendKinds, p : Payloads] \cup {[k |-> "Close", p |-> 0], [k |-> "ForceQuit", p |-> 0]}

DataKinds == {"Text", "Binary", "Ping", "Pong"}

\* tungstenite::Message as returned by read(); Message::Frame is never
\* returned by a read and is left out.
Message ==
    [k : DataKinds, p : Payloads] \cup {[k |-> "Close", p |-> 0]}

\* tungstenite::Error values a read can fail with.  "OtherClosedText" is an
\* error other than Error::ConnectionClosed whose Debug text contains the
\* word "closed" (e.g. an OS error message).
ReadErrors == {"WouldBlock", "TimedOut", "ConnectionClosed", "Other", "OtherClosedText"}

NoDataErrors == {"WouldBlock", "TimedOut"}

\* types.rs: enum WebSocketEvent / the handler callbacks of the same kind.
Ev(k, p) == [k |-> k, p |-> p, ok |-> TRUE]

\* The frame a send command puts on the wire
FrameOf(k) ==
    CASE k = "SendText" -> "Text"
      [] k = "SendBinary" -> "Binary"
      [] k = "SendPing" -> "Ping"
      [] k = "SendPong" -> "Pong"

\* the dispatch as it would be if a ping were handed to the pong signal
EventOfPingAsPong(k) ==
    CASE k = "Text" -> "TextMessage"
      [] k = "Binary" -> "BinaryMessage"
      [] k = "Ping" -> "Pong"
      [] k = "Pong" -> "Pong"

\* The event / callback a message read is dispatched to
EventOf(k) ==
    CASE k = "Text" -> "TextMessage"
      [] k = "Binary" -> "BinaryMessage"
      [] k = "Ping" -> "Ping"
      [] k = "Pong" -> "Pong"

\* ------------------------------------------------------------------------
\* options.rs: NonBlockingOptions / BlockingOptions
\* ------------------------------------------------------------------------
MaxDuration == 2

\* Option<Duration>: None, or Some(d) with d in time units; Some(0) is the
\* zero duration
NoDuration == [some |-> FALSE, d |-> 0]

SomeDuration(d) == [some |-> TRUE, d |-> d]

OptionDurations == {NoDuration} \cup {SomeDuration(d) : d \in 0..MaxDuration}

\* Option<bool> of nodelay and Option<u32> of ttl
NoFlag == [some |-> FALSE, v |-> FALSE]

OptionFlags == {NoFlag} \cup {[some |-> TRUE, v |-> b] : b \in BOOLEAN}

NoTtl == [some |-> FALSE, v |-> 0]

OptionTtls == {NoTtl, [some |-> TRUE, v |-> 64]}

OptionKinds == {"NonBlockingOptions", "BlockingOptions"}

\* Self::default(): every field None
DefaultOptions(kind) ==
    [kind |-> kind, spin_wait_duration |-> NoDuration, nodelay |-> NoFlag, ttl |-> NoTtl,
     read_timeout |-> NoDuration, write_timeout |-> NoDuration]

\* no options value is held: the builder was moved into a call that failed
NoOptions == DefaultOptions("none")

\* the duration setters as they would be without the is_zero() test
DurationRejectedNever(x) == FALSE

\* `if let Some(duration) = duration { if duration.is_zero() { return Err(..) } }`
DurationRejected(x) == x.some /\ x.d = 0

\* the options a connected client of the model holds: the read timeout is
\* the one field the loops test
ConnectOptions(s, timeoutSet) ==
    [DefaultOptions(IF s = "blocking" THEN "BlockingOptions" ELSE "NonBlockingOptions")
        EXCEPT !.read_timeout = IF timeoutSet THEN SomeDuration(1) ELSE NoDuration]

\* ------------------------------------------------------------------------
\* State
\* ------------------------------------------------------------------------
VARIABLES
    options,       \* the options value being built / the client was connected with
    echoed,        \* frames of the client the peer has answered (echo, close reply)
    strategy,      \* which client type was connected
    readTimeout,   \* BlockingOptions.read_timeout.is_some()
    clientAlive,   \* the client struct has not been dropped
    socketSlot,    \* async client: self.socket is Some
    socket,        \* engine state: canWrite, close frames sent, frames sent
    inbound,       \* messages the peer has sent and the client has not read
    control,       \* the command channel (control_tx -> control_rx)
    userTx,        \* the user holds a command sender
    eventRxAlive,  \* some event receiver is alive
    running,       \* callback clients: self.running
    pc,            \* position of the loop / worker
    trace,         \* events published (with success flag) / callbacks invoked
    iter,          \* reads done in the current run
    runCalls,      \* run() calls so far
    workers,       \* worker threads spawned so far
    calls,         \* commands enqueued / client methods called so far
    exitCause,     \* why the loop of the current run ended
    last           \* the last operation and its result

vars == <<options, echoed, strategy, readTimeout, clientAlive, socketSlot, socket, inbound, control,
          userTx, eventRxAlive, running, pc, trace, iter, runCalls, workers, calls,
          exitCause, last>>

Op(op, arg, res) == [op |-> op, arg |-> arg, res |-> res]

\* ------------------------------------------------------------------------
\* shared.rs helpers
\* ------------------------------------------------------------------------

\* the engine's close(None): it leaves its Active state, then writes the
\* close frame; the write succeeds (the frame goes out) or fails
SocketClose(s, closeOk) ==
    IF closeOk
    THEN [s EXCEPT !.canWrite = FALSE, !.closeSent = @ + 1]
    ELSE [s EXCEPT !.canWrite = FALSE, !.closeFailed = @ + 1]

\* close(None) calls made so far on a connection
CloseAttempts(s) == s.closeSent + s.closeFailed

\* the close helper as it would be without the can_write() test
CloseWebsocketUnguarded(s, closeOk) == SocketClose(s, closeOk)

\* close_websocket_with_logging: socket.close(None) is called only while the
\* engine can write; its Err is logged by unwrap_or_else and nothing is
\* returned.
CloseWebsocketWithLogging(s, closeOk) ==
    IF s.canWrite
    THEN SocketClose(s, closeOk)
    ELSE s

\* the send helpers as they would be if a successful send wrote the frame
\* twice
SendToWebsocketTwice(s, k, p, sendOk) ==
    IF sendOk
    THEN [sock |-> [s EXCEPT !.out = Append(Append(@, [k |-> FrameOf(k), p |-> p]),
                                             [k |-> FrameOf(k), p |-> p])],
          res |-> "Ok"]
    ELSE [sock |-> s, res |-> "Err"]

\* send_*_to_websocket: one frame, Ok or Err
SendToWebsocket(s, k, p, sendOk) ==
    IF sendOk
    THEN [sock |-> [s EXCEPT !.out = Append(@, [k |-> FrameOf(k), p |-> p])], res |-> "Ok"]
    ELSE [sock |-> s, res |-> "Err"]

\* handle_control_message as it would be if a failed send broke the loop
HandleControlMessageSendFatal(msg, s, sendOk) ==
    CASE msg.k \in SendKinds ->
            LET r == SendToWebsocket(s, msg.k, msg.p, sendOk)
            IN  [sock |-> r.sock, flow |-> IF r.res = "Ok" THEN "Continue" ELSE "Break"]
      [] msg.k = "Close" ->
            [sock |-> CloseWebsocketWithLogging(s, sendOk), flow |-> "Continue"]
      [] msg.k = "ForceQuit" ->
            [sock |-> s, flow |-> "Break"]

\* handle_control_message as it would be if Close broke the loop
HandleControlMessageCloseBreaks(msg, s, sendOk) ==
    CASE msg.k \in SendKinds ->
            LET r == SendToWebsocket(s, msg.k, msg.p, sendOk)
            IN  [sock |-> r.sock, flow |-> IF r.res = "Ok" THEN "Continue" ELSE "Err"]
      [] msg.k = "Close" ->
            [sock |-> CloseWebsocketWithLogging(s, sendOk), flow |-> "Break"]
      [] msg.k = "ForceQuit" ->
            [sock |-> s, flow |-> "Break"]

\* handle_control_message as it would be if ForceQuit sent a close frame
\* before breaking
HandleControlMessageForceQuitCloses(msg, s, sendOk) ==
    CASE msg.k \in SendKinds ->
            LET r == SendToWebsocket(s, msg.k, msg.p, sendOk)
            IN  [sock |-> r.sock, flow |-> IF r.res = "Ok" THEN "Continue" ELSE "Err"]
      [] msg.k = "Close" ->
            [sock |-> CloseWebsocketWithLogging(s, sendOk), flow |-> "Continue"]
      [] msg.k = "ForceQuit" ->
            [sock |-> CloseWebsocketWithLogging(s, sendOk), flow |-> "Break"]

\* handle_control_message as it would be if a failed close were returned as
\* Err like a failed send
HandleControlMessageCloseFailErr(msg, s, sendOk) ==
    CASE msg.k \in SendKinds ->
            LET r == SendToWebsocket(s, msg.k, msg.p, sendOk)
            IN  [sock |-> r.sock, flow |-> IF r.res = "Ok" THEN "Continue" ELSE "Err"]
      [] msg.k = "Close" ->
            [sock |-> CloseWebsocketWithLogging(s, sendOk),
             flow |-> IF s.canWrite /\ ~sendOk THEN "Err" ELSE "Continue"]
      [] msg.k = "ForceQuit" ->
            [sock |-> s, flow |-> "Break"]

\* handle_control_message: Continue, Break, or Err(text)
HandleControlMessage(msg, s, sendOk) ==
    CASE msg.k \in SendKinds ->
            LET r == SendToWebsocket(s, msg.k, msg.p, sendOk)
            IN  [sock |-> r.sock, flow |-> IF r.res = "Ok" THEN "Continue" ELSE "Err"]
      [] msg.k = "Close" ->
            [sock |-> CloseWebsocketWithLogging(s, sendOk), flow |-> "Continue"]
      [] msg.k = "ForceQuit" ->
            [sock |-> s, flow |-> "Break"]

\* The Debug text of the engine error contains "closed"
DebugHasClosed(e) == e = "OtherClosedText"

\* handle_read_error as it would be without the Error::ConnectionClosed arm:
\* the error falls into the catch-all arm, whose text is the Debug form
\* "ConnectionClosed" (no lower-case "closed")
HandleReadErrorNoClosedArm(e) ==
    CASE e \in NoDataErrors -> [some |-> FALSE, hasClosed |-> FALSE, shouldBreak |-> FALSE]
      [] OTHER -> [some |-> TRUE, hasClosed |-> DebugHasClosed(e), shouldBreak |-> TRUE]

\* handle_read_error as it would be without the TimedOut arm
HandleReadErrorNoTimedOut(e) ==
    CASE e = "WouldBlock" -> [some |-> FALSE, hasClosed |-> FALSE, shouldBreak |-> FALSE]
      [] e = "ConnectionClosed" -> [some |-> TRUE, hasClosed |-> TRUE, shouldBreak |-> TRUE]
      [] OTHER -> [some |-> TRUE, hasClosed |-> DebugHasClosed(e), shouldBreak |-> TRUE]

\* handle_read_error: (reason, should_break); the reason text is kept as the
\* one property the callers test, whether it contains "closed".
HandleReadError(e) ==
    CASE e \in NoDataErrors -> [some |-> FALSE, hasClosed |-> FALSE, shouldBreak |-> FALSE]
      [] e = "ConnectionClosed" -> [some |-> TRUE, hasClosed |-> TRUE, shouldBreak |-> TRUE]
      [] OTHER -> [some |-> TRUE, hasClosed |-> DebugHasClosed(e), shouldBreak |-> TRUE]

\* is_connection_closed_error
IsConnectionClosedError(reason) == reason.hasClosed

\* the report of a breaking read error as it would be if the Quit of the
\* next statement were sent in its place
ReadErrorEventQuit(h) == "Quit"

\* the terminal event / callback a breaking read error is reported as
\* (async and non-blocking clients)
ReadErrorEvent(h) == IF IsConnectionClosedError(h) THEN "ConnectionClosed" ELSE "Error"

\* ------------------------------------------------------------------------
\* The engine's read: the next inbound message, or an error
\* ------------------------------------------------------------------------
\* the read as it would be if the worker did not read while a command is
\* pending (commands strictly before messages)
ReadOutcomesCommandsFirst ==
    IF control # <<>>
    THEN {}
    ELSE (IF inbound # <<>> THEN {[t |-> "msg", m |-> Head(inbound), e |-> "none"]}
                            ELSE {[t |-> "err", m |-> [k |-> "none", p |-> 0], e |-> e] : e \in NoDataErrors})
         \cup {[t |-> "err", m |-> [k |-> "none", p |-> 0], e |-> e] : e \in ReadErrors \ NoDataErrors}

ReadOutcomes ==
    (IF inbound # <<>> THEN {[t |-> "msg", m |-> Head(inbound), e |-> "none"]}
                       ELSE {[t |-> "err", m |-> [k |-> "none", p |-> 0], e |-> e] : e \in NoDataErrors})
    \cup {[t |-> "err", m |-> [k |-> "none", p |-> 0], e |-> e] : e \in ReadErrors \ NoDataErrors}

\* Engine state after a read: a message read leaves the queue; reading the
\* peer's close frame leaves the Active state.
SocketAfterRead(r) ==
    IF r.t = "msg" /\ r.m.k = "Close" THEN [socket EXCEPT !.canWrite = FALSE] ELSE socket

InboundAfterRead(r) == IF r.t = "msg" THEN Tail(inbound) ELSE inbound

\* ------------------------------------------------------------------------
\* Init: the state after a successful connect
\* ------------------------------------------------------------------------
Init ==
    /\ strategy \in Strategies
    /\ readTimeout \in (IF strategy = "blocking" THEN BOOLEAN ELSE {FALSE})
    /\ options = ConnectOptions(strategy, readTimeout)
    /\ echoed = 0
    /\ clientAlive = TRUE
    /\ socketSlot = TRUE
    /\ socket = [canWrite |-> TRUE, closeSent |-> 0, closeFailed |-> 0, out |-> <<>>]
    /\ inbound = <<>>
    /\ control = <<>>
    /\ userTx = TRUE
    /\ eventRxAlive = TRUE
    /\ running = TRUE
    /\ pc = "init"
    /\ trace = <<>>
    /\ iter = 0
    /\ runCalls = 0
    /\ workers = 0
    /\ calls = 0
    /\ exitCause = "none"
    /\ last = Op("connect", "", "Ok")

\* ------------------------------------------------------------------------
\* The peer
\* ------------------------------------------------------------------------
PeerSend ==
    /\ Len(inbound) < MaxInbound
    /\ \E m \in Message : inbound' = Append(inbound, m)
    /\ UNCHANGED <<options, echoed, strategy, readTimeout, clientAlive, socketSlot, socket, control, userTx,
                   eventRxAlive, running, pc, trace, iter, runCalls, workers, calls, exitCause,
                   last>>

\* ------------------------------------------------------------------------
\* Async strategy: the caller's side
\* ------------------------------------------------------------------------

\* run() as it would be without the check of the socket slot: every call
\* spawns a worker
AsyncRunRespawn ==
    /\ strategy = "async" /\ clientAlive /\ runCalls < MaxRuns
    /\ runCalls' = runCalls + 1
    /\ socketSlot' = FALSE
    /\ pc' = "spawned"
    /\ workers' = workers + 1
    /\ last' = Op("run", "", "Ok")
    /\ UNCHANGED <<options, echoed, strategy, readTimeout, clientAlive, socket, inbound, control, userTx,
                   eventRxAlive, running, trace, iter, calls, exitCause>>

\* run() as it would be if it gave the worker a new command channel, leaving
\* behind what was queued
AsyncRunFreshChannel ==
    /\ strategy = "async" /\ clientAlive /\ runCalls < MaxRuns
    /\ runCalls' = runCalls + 1
    /\ IF socketSlot
       THEN /\ socketSlot' = FALSE
            /\ pc' = "spawned"
            /\ workers' = workers + 1
            /\ control' = <<>>
            /\ last' = Op("run", "", "Ok")
       ELSE /\ last' = Op("run", "", "SocketUnavailable")
            /\ UNCHANGED <<socketSlot, pc, workers, control>>
    /\ UNCHANGED <<options, echoed, strategy, readTimeout, clientAlive, socket, inbound, userTx,
                   eventRxAlive, running, trace, iter, calls, exitCause>>

\* S9AsyncNonBlockingWebSocketClient::run
AsyncRun ==
    /\ strategy = "async" /\ clientAlive /\ runCalls < MaxRuns
    /\ runCalls' = runCalls + 1
    /\ IF socketSlot
       THEN /\ socketSlot' = FALSE
            /\ pc' = "spawned"
            /\ workers' = workers + 1
            /\ last' = Op("run", "", "Ok")
       ELSE /\ last' = Op("run", "", "SocketUnavailable")
            /\ UNCHANGED <<socketSlot, pc, workers>>
    /\ UNCHANGED <<options, echoed, strategy, readTimeout, clientAlive, socket, inbound, control, userTx,
                   eventRxAlive, running, trace, iter, calls, exitCause>>

\* get_socket / get_socket_mut of the async client: self.socket.as_ref()
GetSocket == IF socketSlot THEN "Some" ELSE "None"

\* the command channel as it would be if the client kept no receiver of its
\* own: only the running worker holds one
ControlRxAliveWorkerOnly == pc \in {"spawned", "cmd", "read", "quit"}

\* a receiver of the command channel exists: the client's own control_rx or
\* the clone the running worker holds
ControlRxAlive == clientAlive \/ pc \in {"spawned", "cmd", "read", "quit"}

\* control_tx.send(cmd) from the caller's side
Enqueue ==
    /\ strategy = "async" /\ userTx /\ calls < MaxCalls
    /\ calls' = calls + 1
    /\ \E c \in ControlMessage :
          IF ControlRxAlive
          THEN control' = Append(control, c) /\ last' = Op("enqueue", "", "Ok")
          ELSE control' = control /\ last' = Op("enqueue", "", "Err")
    /\ UNCHANGED <<options, echoed, strategy, readTimeout, clientAlive, socketSlot, socket, inbound, userTx,
                   eventRxAlive, running, pc, trace, iter, runCalls, workers, exitCause>>

\* Drop as it would be if it closed the connection whether or not the socket
\* was moved to a worker
AsyncDropAlwaysCloses ==
    /\ strategy = "async" /\ clientAlive
    /\ clientAlive' = FALSE
    /\ \E closeOk \in BOOLEAN : socket' = CloseWebsocketWithLogging(socket, closeOk)
    /\ userTx' \in BOOLEAN
    /\ eventRxAlive' \in BOOLEAN
    /\ last' = Op("drop", "", "")
    /\ UNCHANGED <<options, echoed, strategy, readTimeout, socketSlot, inbound, control, running,
                   pc, trace, iter, runCalls, workers, calls, exitCause>>

\* Drop as it would be if it stopped a running worker
AsyncDropStopsWorker ==
    /\ strategy = "async" /\ clientAlive
    /\ clientAlive' = FALSE
    /\ \E closeOk \in BOOLEAN :
          socket' = IF socketSlot THEN CloseWebsocketWithLogging(socket, closeOk) ELSE socket
    /\ userTx' \in BOOLEAN
    /\ eventRxAlive' \in BOOLEAN
    /\ pc' = IF pc \in {"spawned", "cmd", "read", "quit"} THEN "done" ELSE pc
    /\ last' = Op("drop", "", "")
    /\ UNCHANGED <<options, echoed, strategy, readTimeout, socketSlot, inbound, control, running, trace,
                   iter, runCalls, workers, calls, exitCause>>

\* Drop for S9AsyncNonBlockingWebSocketClient: closes only a socket that was
\* never moved to a worker.  The caller may keep clones of the command
\* sender and of the event receiver.
AsyncDrop ==
    /\ strategy = "async" /\ clientAlive
    /\ clientAlive' = FALSE
    /\ \E closeOk \in BOOLEAN :
          socket' = IF socketSlot THEN CloseWebsocketWithLogging(socket, closeOk) ELSE socket
    /\ userTx' \in BOOLEAN
    /\ eventRxAlive' \in BOOLEAN
    /\ last' = Op("drop", "", "")
    /\ UNCHANGED <<options, echoed, strategy, readTimeout, socketSlot, inbound, control, running, pc, trace,
                   iter, runCalls, workers, calls, exitCause>>

\* ------------------------------------------------------------------------
\* Async strategy: the worker thread
\* ------------------------------------------------------------------------

\* event_tx.send(ev) as it would be if every event were sent twice
PublishedTwice(k, p) ==
    Append(Append(trace, [k |-> k, p |-> p, ok |-> eventRxAlive]),
           [k |-> k, p |-> p, ok |-> eventRxAlive])

\* event_tx.send(ev): the event is recorded with the success of the send
Published(k, p) == Append(trace, [k |-> k, p |-> p, ok |-> eventRxAlive])

\* the worker as it would be if it entered the loop without publishing
\* Activated
WorkerActivateSilent ==
    /\ strategy = "async" /\ pc = "spawned"
    /\ pc' = "cmd"
    /\ last' = Op("activate", "", "")
    /\ UNCHANGED <<options, echoed, strategy, readTimeout, clientAlive, socketSlot, socket, inbound, control,
                   userTx, eventRxAlive, running, trace, iter, runCalls, workers, calls,
                   exitCause>>

\* the worker as it would be if each iteration read first and took its
\* command afterwards
WorkerActivateReadFirst ==
    /\ strategy = "async" /\ pc = "spawned"
    /\ trace' = Published("Activated", 0)
    /\ pc' = "read"
    /\ last' = Op("activate", "", "")
    /\ UNCHANGED <<options, echoed, strategy, readTimeout, clientAlive, socketSlot, socket, inbound, control,
                   userTx, eventRxAlive, running, iter, runCalls, workers, calls, exitCause>>

\* send_or_log!(Activated) before the loop
WorkerActivate ==
    /\ strategy = "async" /\ pc = "spawned"
    /\ trace' = Published("Activated", 0)
    /\ pc' = "cmd"
    /\ last' = Op("activate", "", "")
    /\ UNCHANGED <<options, echoed, strategy, readTimeout, clientAlive, socketSlot, socket, inbound, control,
                   userTx, eventRxAlive, running, iter, runCalls, workers, calls, exitCause>>

\* step 1 of an iteration as it would be if try_recv took the newest
\* command of the channel
WorkerCommandLifo ==
    /\ strategy = "async" /\ pc = "cmd" /\ iter < MaxIter
    /\ IF control = <<>>
       THEN /\ pc' = "read"
            /\ last' = Op("command", "none", "")
            /\ UNCHANGED <<socket, control, trace, exitCause>>
       ELSE \E sendOk \in BOOLEAN :
            LET msg == control[Len(control)]
                r == HandleControlMessage(msg, socket, sendOk)
            IN  /\ control' = SubSeq(control, 1, Len(control) - 1)
                /\ socket' = r.sock
                /\ last' = Op("command", msg.k, r.flow)
                /\ CASE r.flow = "Continue" ->
                            /\ pc' = "read"
                            /\ UNCHANGED <<trace, exitCause>>
                     [] r.flow = "Break" ->
                            /\ trace' = Published("Quit", 0)
                            /\ pc' = "done"
                            /\ exitCause' = "ForceQuit"
                     [] r.flow = "Err" ->
                            /\ trace' = Published("Error", 0)
                            /\ IF eventRxAlive
                               THEN pc' = "read" /\ UNCHANGED exitCause
                               ELSE pc' = "done" /\ exitCause' = "PublishFailed"
    /\ UNCHANGED <<options, echoed, strategy, readTimeout, clientAlive, socketSlot, inbound, userTx,
                   eventRxAlive, running, iter, runCalls, workers, calls>>

\* step 1 of an iteration as it would be with a blocking recv(): the worker
\* waits until a command arrives
WorkerCommandBlocking ==
    /\ strategy = "async" /\ pc = "cmd" /\ iter < MaxIter
    /\ control # <<>>
    /\ IF control = <<>>
       THEN /\ pc' = "read"
            /\ last' = Op("command", "none", "")
            /\ UNCHANGED <<socket, control, trace, exitCause>>
       ELSE \E sendOk \in BOOLEAN :
            LET msg == Head(control)
                r == HandleControlMessage(msg, socket, sendOk)
            IN  /\ control' = Tail(control)
                /\ socket' = r.sock
                /\ last' = Op("command", msg.k, r.flow)
                /\ CASE r.flow = "Continue" ->
                            /\ pc' = "read"
                            /\ UNCHANGED <<trace, exitCause>>
                     [] r.flow = "Break" ->
                            /\ trace' = Published("Quit", 0)
                            /\ pc' = "done"
                            /\ exitCause' = "ForceQuit"
                     [] r.flow = "Err" ->
                            /\ trace' = Published("Error", 0)
                            /\ IF eventRxAlive
                               THEN pc' = "read" /\ UNCHANGED exitCause
                               ELSE pc' = "done" /\ exitCause' = "PublishFailed"
    /\ UNCHANGED <<options, echoed, strategy, readTimeout, clientAlive, socketSlot, inbound, userTx,
                   eventRxAlive, running, iter, runCalls, workers, calls>>

\* step 1 of an iteration: try_recv and handle_control_message
WorkerCommand ==
    /\ strategy = "async" /\ pc = "cmd" /\ iter < MaxIter
    /\ IF control = <<>>
       THEN /\ pc' = "read"
            /\ last' = Op("command", "none", "")
            /\ UNCHANGED <<socket, control, trace, exitCause>>
       ELSE \E sendOk \in BOOLEAN :
            LET msg == Head(control)
                r == HandleControlMessage(msg, socket, sendOk)
            IN  /\ control' = Tail(control)
                /\ socket' = r.sock
                /\ last' = Op("command", msg.k, r.flow)
                /\ CASE r.flow = "Continue" ->
                            /\ pc' = "read"
                            /\ UNCHANGED <<trace, exitCause>>
                     [] r.flow = "Break" ->
                            /\ trace' = Published("Quit", 0)
                            /\ pc' = "done"
                            /\ exitCause' = "ForceQuit"
                     [] r.flow = "Err" ->
                            /\ trace' = Published("Error", 0)
                            /\ IF eventRxAlive
                               THEN pc' = "read" /\ UNCHANGED exitCause
                               ELSE pc' = "done" /\ exitCause' = "PublishFailed"
    /\ UNCHANGED <<options, echoed, strategy, readTimeout, clientAlive, socketSlot, inbound, userTx,
                   eventRxAlive, running, iter, runCalls, workers, calls>>

\* the read step as it would be if data messages were published with
\* send_or_log!: a failed publish does not break
WorkerReadLogOnly ==
    /\ strategy = "async" /\ pc = "read"
    /\ iter' = iter + 1
    /\ \E r \in ReadOutcomes :
        /\ socket' = SocketAfterRead(r)
        /\ inbound' = InboundAfterRead(r)
        /\ last' = Op("read", IF r.t = "msg" THEN r.m.k ELSE r.e, "")
        /\ IF r.t = "msg"
           THEN IF r.m.k = "Close"
                THEN /\ trace' = Published("ConnectionClosed", 0)
                     /\ pc' = "quit"
                     /\ exitCause' = "CloseFrame"
                ELSE /\ trace' = Published(EventOf(r.m.k), r.m.p)
                     /\ pc' = "cmd"
                     /\ UNCHANGED exitCause
           ELSE LET h == HandleReadError(r.e)
                IN  IF h.some /\ h.shouldBreak
                    THEN /\ trace' = Published(ReadErrorEvent(h), 0)
                         /\ pc' = "quit"
                         /\ exitCause' = "ReadError"
                    ELSE /\ pc' = "cmd"
                         /\ UNCHANGED <<trace, exitCause>>
    /\ UNCHANGED <<options, echoed, strategy, readTimeout, clientAlive, socketSlot, control, userTx,
                   eventRxAlive, running, runCalls, workers, calls>>

\* the read step as it would be if a read without data were published as an
\* Idle event, as the callback clients report it to on_idle
WorkerReadPublishesIdle ==
    /\ strategy = "async" /\ pc = "read"
    /\ iter' = iter + 1
    /\ \E r \in ReadOutcomes :
        /\ socket' = SocketAfterRead(r)
        /\ inbound' = InboundAfterRead(r)
        /\ last' = Op("read", IF r.t = "msg" THEN r.m.k ELSE r.e, "")
        /\ IF r.t = "msg"
           THEN IF r.m.k = "Close"
                THEN /\ trace' = Published("ConnectionClosed", 0)
                     /\ pc' = "quit"
                     /\ exitCause' = "CloseFrame"
                ELSE /\ trace' = Published(EventOf(r.m.k), r.m.p)
                     /\ IF eventRxAlive
                        THEN pc' = "cmd" /\ UNCHANGED exitCause
                        ELSE pc' = "done" /\ exitCause' = "PublishFailed"
           ELSE LET h == HandleReadError(r.e)
                IN  IF h.some /\ h.shouldBreak
                    THEN /\ trace' = Published(ReadErrorEvent(h), 0)
                         /\ pc' = "quit"
                         /\ exitCause' = "ReadError"
                    ELSE /\ trace' = Published("Idle", 0)
                         /\ pc' = "cmd"
                         /\ UNCHANGED exitCause
    /\ UNCHANGED <<options, echoed, strategy, readTimeout, clientAlive, socketSlot, control, userTx,
                   eventRxAlive, running, runCalls, workers, calls>>

\* step 2 of an iteration: socket.read() and the dispatch of its result
WorkerRead ==
    /\ strategy = "async" /\ pc = "read"
    /\ iter' = iter + 1
    /\ \E r \in ReadOutcomes :
        /\ socket' = SocketAfterRead(r)
        /\ inbound' = InboundAfterRead(r)
        /\ last' = Op("read", IF r.t = "msg" THEN r.m.k ELSE r.e, "")
        /\ IF r.t = "msg"
           THEN IF r.m.k = "Close"
                THEN /\ trace' = Published("ConnectionClosed", 0)
                     /\ pc' = "quit"
                     /\ exitCause' = "CloseFrame"
                ELSE /\ trace' = Published(EventOf(r.m.k), r.m.p)
                     /\ IF eventRxAlive
                        THEN pc' = "cmd" /\ UNCHANGED exitCause
                        ELSE pc' = "done" /\ exitCause' = "PublishFailed"
           ELSE LET h == HandleReadError(r.e)
                IN  IF h.some /\ h.shouldBreak
                    THEN /\ trace' = Published(ReadErrorEvent(h), 0)
                         /\ pc' = "quit"
                         /\ exitCause' = "ReadError"
                    ELSE /\ pc' = "cmd"
                         /\ UNCHANGED <<trace, exitCause>>
    /\ UNCHANGED <<options, echoed, strategy, readTimeout, clientAlive, socketSlot, control, userTx,
                   eventRxAlive, running, runCalls, workers, calls>>

\* the terminal path as it would be if the worker broke without the Quit
\* publish
WorkerQuitSilent ==
    /\ strategy = "async" /\ pc = "quit"
    /\ pc' = "done"
    /\ last' = Op("quit", "", "")
    /\ UNCHANGED <<options, echoed, strategy, readTimeout, clientAlive, socketSlot, socket, inbound, control,
                   userTx, eventRxAlive, running, trace, iter, runCalls, workers, calls, exitCause>>

\* the Quit publish that follows the terminal event, then break
WorkerQuit ==
    /\ strategy = "async" /\ pc = "quit"
    /\ trace' = Published("Quit", 0)
    /\ pc' = "done"
    /\ last' = Op("quit", "", "")
    /\ UNCHANGED <<options, echoed, strategy, readTimeout, clientAlive, socketSlot, socket, inbound, control,
                   userTx, eventRxAlive, running, iter, runCalls, workers, calls, exitCause>>

\* ------------------------------------------------------------------------
\* Callback strategies (non-blocking and blocking): run() on the caller's
\* thread.  The handler's callbacks and the code around run() are user code;
\* while control is there the client's methods may be called.
\* ------------------------------------------------------------------------
InCallback == {"on_activated", "on_poll", "on_message", "on_idle", "on_terminal", "on_quit"}

UserPcs == {"init", "returned"} \cup InCallback

Invoked(k, p) == Append(trace, Ev(k, p))

\* run() as it would be if it armed the running flag again
CbRunResetsRunning ==
    /\ strategy \in CallbackStrategies /\ clientAlive
    /\ pc \in {"init", "returned"} /\ runCalls < MaxRuns
    /\ runCalls' = runCalls + 1
    /\ running' = TRUE
    /\ trace' = <<Ev("Activated", 0)>>
    /\ pc' = "on_activated"
    /\ iter' = 0
    /\ exitCause' = "none"
    /\ last' = Op("run", "", "")
    /\ UNCHANGED <<options, echoed, strategy, readTimeout, clientAlive, socketSlot, socket, inbound, control,
                   userTx, eventRxAlive, workers, calls>>

\* run(): on_activated before the loop
CbRun ==
    /\ strategy \in CallbackStrategies /\ clientAlive
    /\ pc \in {"init", "returned"} /\ runCalls < MaxRuns
    /\ runCalls' = runCalls + 1
    /\ trace' = <<Ev("Activated", 0)>>
    /\ pc' = "on_activated"
    /\ iter' = 0
    /\ exitCause' = "none"
    /\ last' = Op("run", "", "")
    /\ UNCHANGED <<options, echoed, strategy, readTimeout, clientAlive, socketSlot, socket, inbound, control,
                   userTx, eventRxAlive, running, workers, calls>>

\* a callback of the loop body has returned: the optional sleep, then the
\* loop condition `while self.running`, then on_poll of the next iteration
CbLoopHead ==
    /\ strategy \in CallbackStrategies
    /\ pc \in {"on_activated", "on_message", "on_idle"}
    /\ IF running
       THEN /\ iter < MaxIter
            /\ trace' = Invoked("Poll", 0)
            /\ pc' = "on_poll"
            /\ UNCHANGED exitCause
       ELSE /\ pc' = "returned"
            /\ exitCause' = "ForceQuit"
            /\ UNCHANGED trace
    /\ last' = Op("loop", "", "")
    /\ UNCHANGED <<options, echoed, strategy, readTimeout, clientAlive, socketSlot, socket, inbound, control,
                   userTx, eventRxAlive, running, iter, runCalls, workers, calls>>

\* the non-blocking client's report as it would be if "no data" were a fault
\* (as it is in the blocking client without a read timeout)
NonBlockingReadErrorNoDataFault(e) ==
    LET h == HandleReadError(e)
    IN  IF h.some /\ h.shouldBreak THEN ReadErrorEvent(h) ELSE "Error"

\* the non-blocking client's report as it would be if every failed read were
\* reported as idle
NonBlockingReadErrorAlwaysIdle(e) == "Idle"

\* the callback a failed read leads to in the non-blocking client:
\* handle_read_error and is_connection_closed_error
NonBlockingReadError(e) ==
    LET h == HandleReadError(e)
    IN  IF h.some
        THEN IF h.shouldBreak
             THEN ReadErrorEvent(h)
             ELSE "none"
        ELSE "Idle"

\* the blocking client's match as it would be if it did not test whether a
\* read timeout was configured
BlockingReadErrorIgnoresTimeout(e, timeoutSet) ==
    CASE e \in NoDataErrors -> "Idle"
      [] e = "ConnectionClosed" -> "ConnectionClosed"
      [] OTHER -> "Error"

\* the blocking client's match as it would be if would-block / timed-out
\* were fatal even with a read timeout configured
BlockingReadErrorTimeoutFatal(e, timeoutSet) ==
    CASE e \in NoDataErrors -> "Error"
      [] e = "ConnectionClosed" -> "ConnectionClosed"
      [] OTHER -> "Error"

\* the callback a failed read leads to in the blocking client: its own
\* match, in which would-block / timed-out is idle only when a read timeout
\* was configured
BlockingReadError(e, timeoutSet) ==
    CASE e \in NoDataErrors -> (IF timeoutSet THEN "Idle" ELSE "Error")
      [] e = "ConnectionClosed" -> "ConnectionClosed"
      [] OTHER -> "Error"

\* on_poll has returned: socket.read() and the dispatch of its result
CbRead ==
    /\ strategy \in CallbackStrategies /\ pc = "on_poll"
    /\ iter' = iter + 1
    /\ \E r \in ReadOutcomes :
        /\ socket' = SocketAfterRead(r)
        /\ inbound' = InboundAfterRead(r)
        /\ last' = Op("read", IF r.t = "msg" THEN r.m.k ELSE r.e, "")
        /\ IF r.t = "msg"
           THEN IF r.m.k = "Close"
                THEN /\ trace' = Invoked("ConnectionClosed", 0)
                     /\ pc' = "on_terminal"
                     /\ exitCause' = "CloseFrame"
                ELSE /\ trace' = Invoked(EventOf(r.m.k), r.m.p)
                     /\ pc' = "on_message"
                     /\ UNCHANGED exitCause
           ELSE LET cb == IF strategy = "blocking"
                          THEN BlockingReadError(r.e, readTimeout)
                          ELSE NonBlockingReadError(r.e)
                IN  IF cb = "Idle"
                    THEN /\ trace' = Invoked("Idle", 0)
                         /\ pc' = "on_idle"
                         /\ UNCHANGED exitCause
                    ELSE /\ trace' = Invoked(cb, 0)
                         /\ pc' = "on_terminal"
                         /\ exitCause' = "ReadError"
    /\ UNCHANGED <<options, echoed, strategy, readTimeout, clientAlive, socketSlot, control, userTx,
                   eventRxAlive, running, runCalls, workers, calls>>

\* the loop as it would be if it broke after the terminal callback without
\* invoking on_quit
CbQuitSkipped ==
    /\ strategy \in CallbackStrategies /\ pc = "on_terminal"
    /\ pc' = "on_quit"
    /\ last' = Op("quit", "", "")
    /\ UNCHANGED <<options, echoed, strategy, readTimeout, clientAlive, socketSlot, socket, inbound, control,
                   userTx, eventRxAlive, running, trace, iter, runCalls, workers, calls,
                   exitCause>>

\* on_connection_closed / on_error has returned: on_quit
CbQuit ==
    /\ strategy \in CallbackStrategies /\ pc = "on_terminal"
    /\ trace' = Invoked("Quit", 0)
    /\ pc' = "on_quit"
    /\ last' = Op("quit", "", "")
    /\ UNCHANGED <<options, echoed, strategy, readTimeout, clientAlive, socketSlot, socket, inbound, control,
                   userTx, eventRxAlive, running, iter, runCalls, workers, calls, exitCause>>

\* on_quit has returned: break, run() returns
CbReturn ==
    /\ strategy \in CallbackStrategies /\ pc = "on_quit"
    /\ pc' = "returned"
    /\ last' = Op("return", "", "")
    /\ UNCHANGED <<options, echoed, strategy, readTimeout, clientAlive, socketSlot, socket, inbound, control,
                   userTx, eventRxAlive, running, trace, iter, runCalls, workers, calls,
                   exitCause>>

\* send_text_message / send_binary_message / send_ping / send_pong
CbSend ==
    /\ strategy \in CallbackStrategies /\ clientAlive
    /\ pc \in UserPcs /\ calls < MaxCalls
    /\ calls' = calls + 1
    /\ \E k \in SendKinds, p \in Payloads, sendOk \in BOOLEAN :
        LET r == SendToWebsocket(socket, k, p, sendOk)
        IN  /\ socket' = r.sock
            /\ last' = Op("send", k, r.res)
    /\ UNCHANGED <<options, echoed, strategy, readTimeout, clientAlive, socketSlot, inbound, control, userTx,
                   eventRxAlive, running, pc, trace, iter, runCalls, workers, exitCause>>

\* close()
CbClose ==
    /\ strategy \in CallbackStrategies /\ clientAlive
    /\ pc \in UserPcs /\ calls < MaxCalls
    /\ calls' = calls + 1
    /\ \E closeOk \in BOOLEAN :
          /\ socket' = CloseWebsocketWithLogging(socket, closeOk)
          /\ last' = Op("close", IF socket.canWrite
                                 THEN (IF closeOk THEN "sent" ELSE "failed")
                                 ELSE "noop", "")
    /\ UNCHANGED <<options, echoed, strategy, readTimeout, clientAlive, socketSlot, inbound, control, userTx,
                   eventRxAlive, running, pc, trace, iter, runCalls, workers, exitCause>>

\* force_quit() as it would be if it ended run() at once, from inside the
\* callback that calls it
CbForceQuitImmediate ==
    /\ strategy \in CallbackStrategies /\ clientAlive
    /\ pc \in UserPcs /\ calls < MaxCalls
    /\ calls' = calls + 1
    /\ running' = FALSE
    /\ IF pc \in InCallback
       THEN pc' = "returned" /\ exitCause' = "ForceQuit"
       ELSE UNCHANGED <<pc, exitCause>>
    /\ last' = Op("force_quit", "", "")
    /\ UNCHANGED <<options, echoed, strategy, readTimeout, clientAlive, socketSlot, socket, inbound, control,
                   userTx, eventRxAlive, trace, iter, runCalls, workers>>

\* force_quit()
CbForceQuit ==
    /\ strategy \in CallbackStrategies /\ clientAlive
    /\ pc \in UserPcs /\ calls < MaxCalls
    /\ calls' = calls + 1
    /\ running' = FALSE
    /\ last' = Op("force_quit", "", "")
    /\ UNCHANGED <<options, echoed, strategy, readTimeout, clientAlive, socketSlot, socket, inbound, control,
                   userTx, eventRxAlive, pc, trace, iter, runCalls, workers, exitCause>>

\* Drop of a callback client as it would be without the close helper
CbDropNoClose ==
    /\ strategy \in CallbackStrategies /\ clientAlive
    /\ pc \in {"init", "returned"}
    /\ clientAlive' = FALSE
    /\ last' = Op("drop", "", "")
    /\ UNCHANGED <<options, echoed, strategy, readTimeout, socketSlot, socket, inbound, control,
                   userTx, eventRxAlive, running, pc, trace, iter, runCalls, workers, calls,
                   exitCause>>

\* Drop for the callback clients (never during run(), which borrows the client)
CbDrop ==
    /\ strategy \in CallbackStrategies /\ clientAlive
    /\ pc \in {"init", "returned"}
    /\ clientAlive' = FALSE
    /\ \E closeOk \in BOOLEAN : socket' = CloseWebsocketWithLogging(socket, closeOk)
    /\ last' = Op("drop", "", "")
    /\ UNCHANGED <<options, echoed, strategy, readTimeout, socketSlot, inbound, control, userTx, eventRxAlive,
                   running, pc, trace, iter, runCalls, workers, calls, exitCause>>

Next ==
    \/ PeerSend
    \/ AsyncRun
    \/ Enqueue
    \/ AsyncDrop
    \/ WorkerActivate
    \/ WorkerCommand
    \/ WorkerRead
    \/ WorkerQuit
    \/ CbRun
    \/ CbLoopHead
    \/ CbRead
    \/ CbQuit
    \/ CbReturn
    \/ CbSend
    \/ CbClose
    \/ CbForceQuit
    \/ CbDrop

Spec == Init /\ [][Next]_vars

\* ------------------------------------------------------------------------
\* Building an options value, before any connect
\* ------------------------------------------------------------------------
clientVars == <<echoed, strategy, readTimeout, clientAlive, socketSlot, socket, inbound,
                control, userTx, eventRxAlive, running, pc, trace, iter, runCalls, workers,
                calls, exitCause>>

DurationSetters == {"spin_wait_duration", "read_timeout", "write_timeout"}

\* a duration setter: `mut self` is consumed; Err drops it, Ok returns it
\* with the field set
SetDuration(field, d) ==
    IF DurationRejected(d)
    THEN /\ options' = NoOptions
         /\ last' = Op(field, d, "InvalidConfiguration")
    ELSE /\ options' = [options EXCEPT ![field] = d]
         /\ last' = Op(field, d, "Ok")

OptionsInit ==
    /\ options \in {DefaultOptions(k) : k \in OptionKinds}
    /\ echoed = 0
    /\ strategy = "none"
    /\ readTimeout = FALSE
    /\ clientAlive = FALSE
    /\ socketSlot = FALSE
    /\ socket = [canWrite |-> FALSE, closeSent |-> 0, closeFailed |-> 0, out |-> <<>>]
    /\ inbound = <<>>
    /\ control = <<>>
    /\ userTx = FALSE
    /\ eventRxAlive = FALSE
    /\ running = FALSE
    /\ pc = "options"
    /\ trace = <<>>
    /\ iter = 0
    /\ runCalls = 0
    /\ workers = 0
    /\ calls = 0
    /\ exitCause = "none"
    /\ last = Op("new", options.kind, "Ok")

\* NonBlockingOptions::new / BlockingOptions::new
OptionsNew ==
    /\ \E k \in OptionKinds :
          /\ options' = DefaultOptions(k)
          /\ last' = Op("new", k, "Ok")
    /\ UNCHANGED clientVars

\* spin_wait_duration(duration) of either options type
SpinWaitDuration ==
    /\ options.kind \in OptionKinds
    /\ \E d \in OptionDurations : SetDuration("spin_wait_duration", d)
    /\ UNCHANGED clientVars

\* nodelay(nodelay): no validation, returns Self
Nodelay ==
    /\ options.kind \in OptionKinds
    /\ \E b \in BOOLEAN :
          /\ options' = [options EXCEPT !.nodelay = [some |-> TRUE, v |-> b]]
          /\ last' = Op("nodelay", b, "Ok")
    /\ UNCHANGED clientVars

\* ttl(ttl): no validation, always Ok
Ttl ==
    /\ options.kind \in OptionKinds
    /\ \E t \in OptionTtls :
          /\ options' = [options EXCEPT !.ttl = t]
          /\ last' = Op("ttl", t, "Ok")
    /\ UNCHANGED clientVars

\* BlockingOptions::read_timeout(timeout)
ReadTimeout ==
    /\ options.kind = "BlockingOptions"
    /\ \E d \in OptionDurations : SetDuration("read_timeout", d)
    /\ UNCHANGED clientVars

\* BlockingOptions::write_timeout(timeout)
WriteTimeout ==
    /\ options.kind = "BlockingOptions"
    /\ \E d \in OptionDurations : SetDuration("write_timeout", d)
    /\ UNCHANGED clientVars

OptionsNext ==
    \/ OptionsNew
    \/ SpinWaitDuration
    \/ Nodelay
    \/ Ttl
    \/ ReadTimeout
    \/ WriteTimeout

OptionsSpec == OptionsInit /\ [][OptionsNext]_vars

\* ------------------------------------------------------------------------
\* The async strategy against a peer that echoes every text frame
\* ------------------------------------------------------------------------

\* the payloads of the entries of kind `kind` in a sequence of frames,
\* messages or events, in order
PayloadsOf(seq, kind) ==
    LET sel == SelectSeq(seq, LAMBDA x : x.k = kind)
    IN  [i \in 1..Len(sel) |-> sel[i].p]

\* the peer answers the next text frame it received with a text message of
\* the same payload
PeerEcho ==
    /\ Len(inbound) < MaxInbound
    /\ LET sent == PayloadsOf(socket.out, "Text")
       IN  /\ echoed < Len(sent)
           /\ inbound' = Append(inbound, [k |-> "Text", p |-> sent[echoed + 1]])
    /\ echoed' = echoed + 1
    /\ UNCHANGED <<options, strategy, readTimeout, clientAlive, socketSlot, socket, control,
                   userTx, eventRxAlive, running, pc, trace, iter, runCalls, workers, calls,
                   exitCause, last>>

EchoInit == Init /\ strategy = "async"

EchoNext ==
    \/ PeerEcho
    \/ AsyncRun
    \/ Enqueue
    \/ AsyncDrop
    \/ WorkerActivate
    \/ WorkerCommand
    \/ WorkerRead
    \/ WorkerQuit

EchoSpec == EchoInit /\ [][EchoNext]_vars

\* ------------------------------------------------------------------------
\* The blocking strategy with a read timeout against a peer that sends no
\* data on a working connection: reads time out, and the peer's only frame
\* is its reply to a close frame
\* ------------------------------------------------------------------------
FatalReadErrors == ReadErrors \ NoDataErrors

\* the peer answers the client's close frame with its own
PeerCloseAck ==
    /\ echoed < socket.closeSent
    /\ Len(inbound) < MaxInbound
    /\ inbound' = Append(inbound, [k |-> "Close", p |-> 0])
    /\ echoed' = echoed + 1
    /\ UNCHANGED <<options, strategy, readTimeout, clientAlive, socketSlot, socket, control,
                   userTx, eventRxAlive, running, pc, trace, iter, runCalls, workers, calls,
                   exitCause, last>>

\* a read on a working connection: a message or "no data"
HealthyCbRead == CbRead /\ last'.arg \notin FatalReadErrors

IdleInit == Init /\ strategy = "blocking" /\ readTimeout

IdleNext ==
    \/ PeerCloseAck
    \/ CbRun
    \/ CbLoopHead
    \/ HealthyCbRead
    \/ CbQuit
    \/ CbReturn
    \/ CbSend
    \/ CbClose
    \/ CbForceQuit
    \/ CbDrop

\* the loop runs on its thread: a callback returns and the next statement of
\* run() is executed; the peer answers a close frame it received
IdleSpec ==
    /\ IdleInit
    /\ [][IdleNext]_vars
    /\ WF_vars(CbLoopHead)
    /\ WF_vars(HealthyCbRead)
    /\ WF_vars(CbQuit)
    /\ WF_vars(CbReturn)
    /\ WF_vars(PeerCloseAck)

\* ------------------------------------------------------------------------
\* The async strategy on a working connection whose peer answers a close
\* frame with its own: the caller keeps the client (and so a receiver of
\* the events) and sends no ForceQuit
\* ------------------------------------------------------------------------

\* control_tx.send of any command but ForceQuit
EnqueueNoForceQuit == Enqueue /\ control'[Len(control')].k # "ForceQuit"

\* the peer sends a data message
PeerSendData == PeerSend /\ inbound'[Len(inbound')].k \in DataKinds

\* a read of the worker on a working connection: a message or "no data"
HealthyWorkerRead == WorkerRead /\ last'.arg \notin FatalReadErrors

GracefulInit == Init /\ strategy = "async"

GracefulNext ==
    \/ PeerSendData
    \/ PeerCloseAck
    \/ AsyncRun
    \/ EnqueueNoForceQuit
    \/ WorkerActivate
    \/ WorkerCommand
    \/ HealthyWorkerRead
    \/ WorkerQuit

\* the worker thread runs: each statement of its loop is executed in turn;
\* the peer answers a close frame it received
GracefulSpec ==
    /\ GracefulInit
    /\ [][GracefulNext]_vars
    /\ WF_vars(WorkerActivate)
    /\ WF_vars(WorkerCommand)
    /\ WF_vars(HealthyWorkerRead)
    /\ WF_vars(WorkerQuit)
    /\ WF_vars(PeerCloseAck)

\* ------------------------------------------------------------------------
\* connect / connect_with_headers of the three clients: connect_socket,
\* then the configuration of the stream, then the client struct
\* ------------------------------------------------------------------------

\* Uri::from_str(uri): Err or Ok
UriInputs == {"malformed", "wellformed"}

\* tungstenite::Error::Url values tungstenite::connect returns: for a URI it
\* cannot use, and (UnableToConnect) when the TCP connect to every address
\* of the host has failed
UrlErrors == {"UrlUnsupportedUrlScheme", "UrlNoHostName", "UrlUnableToConnect"}

\* the errors of the handshake itself
HandshakeErrors == {"Tls", "Protocol", "Http"}

\* tungstenite::Error values tungstenite::connect can fail with
ConnectErrors == {"Io"} \cup UrlErrors \cup HandshakeErrors

\* the kind of stream the engine hands back
StreamKinds == {"Plain", "NativeTls", "Rustls"}

\* impl From<TungsteniteError> for S9WebSocketError
FromTungsteniteError(e) ==
    CASE e = "ConnectionClosed" -> "ConnectionClosed"
      [] e = "Io" -> "Io"
      [] e \in UrlErrors -> "InvalidUri"
      [] OTHER -> "Tungstenite"

\* the options a caller can have built (OptionsSpec) for a client type; the
\* spin wait is not used by connect
BuiltOptions(s) ==
    IF s = "blocking"
    THEN {[DefaultOptions("BlockingOptions") EXCEPT !.nodelay = n, !.ttl = t,
                                                     !.read_timeout = r, !.write_timeout = w] :
             n \in OptionFlags, t \in OptionTtls,
             r \in {NoDuration, SomeDuration(1)}, w \in {NoDuration, SomeDuration(1)}}
    ELSE {[DefaultOptions("NonBlockingOptions") EXCEPT !.nodelay = n, !.ttl = t] :
             n \in OptionFlags, t \in OptionTtls}

\* the calls configure_non_blocking / configure_blocking make on the stream,
\* in order; a rustls stream is left as it is
ConfigureCalls(s, o, stream) ==
    IF stream = "Rustls"
    THEN <<>>
    ELSE (IF s = "blocking" THEN <<>> ELSE <<"set_nonblocking">>)
         \o (IF o.nodelay.some THEN <<"set_nodelay">> ELSE <<>>)
         \o (IF o.ttl.some THEN <<"set_ttl">> ELSE <<>>)
         \o (IF s = "blocking" THEN <<"set_read_timeout", "set_write_timeout">> ELSE <<>>)

ConnectInit ==
    /\ strategy \in Strategies
    /\ options \in BuiltOptions(strategy)
    /\ readTimeout = options.read_timeout.some
    /\ echoed = 0
    /\ clientAlive = FALSE
    /\ socketSlot = FALSE
    /\ socket = [canWrite |-> FALSE, closeSent |-> 0, closeFailed |-> 0, out |-> <<>>]
    /\ inbound = <<>>
    /\ control = <<>>
    /\ userTx = FALSE
    /\ eventRxAlive = FALSE
    /\ running = FALSE
    /\ pc = "connect"
    /\ trace = <<>>
    /\ iter = 0
    /\ runCalls = 0
    /\ workers = 0
    /\ calls = 0
    /\ exitCause = "none"
    /\ \E u \in UriInputs :
          last = Op("connect", [uri |-> u, engine |-> "none", stream |-> "none", failed |-> "none"],
                    "pending")

\* shared::connect_socket: Uri::from_str, then tungstenite::connect(builder)?
ConnectSocket ==
    /\ pc = "connect"
    /\ IF last.arg.uri = "malformed"
       THEN /\ pc' = "failed"
            /\ last' = [last EXCEPT !.res = "InvalidUri"]
       ELSE \E r \in {"Ok"} \cup ConnectErrors :
               IF r = "Ok"
               THEN /\ pc' = "configure"
                    /\ \E k \in StreamKinds :
                          last' = [last EXCEPT !.arg.engine = r, !.arg.stream = k, !.res = "socket"]
               ELSE /\ pc' = "failed"
                    /\ last' = [last EXCEPT !.arg.engine = r, !.res = FromTungsteniteError(r)]
    /\ UNCHANGED <<options, echoed, strategy, readTimeout, clientAlive, socketSlot, socket, inbound,
                   control, userTx, eventRxAlive, running, trace, iter, runCalls, workers, calls,
                   exitCause>>

\* shared::configure_non_blocking / configure_blocking (each call on the
\* stream may fail with an io::Error, returned by `?`), then Ok(client)
ConfigureAndBuild ==
    /\ pc = "configure"
    /\ LET cs == ConfigureCalls(strategy, options, last.arg.stream)
       IN  \E f \in 0..Len(cs) :
              IF f = 0
              THEN /\ pc' = "init"
                   /\ last' = [last EXCEPT !.res = "Ok"]
                   /\ clientAlive' = TRUE
                   /\ socketSlot' = TRUE
                   /\ socket' = [canWrite |-> TRUE, closeSent |-> 0, closeFailed |-> 0, out |-> <<>>]
                   /\ userTx' = TRUE
                   /\ eventRxAlive' = TRUE
                   /\ running' = TRUE
              ELSE /\ pc' = "failed"
                   /\ last' = [last EXCEPT !.arg.failed = cs[f], !.res = "Io"]
                   /\ UNCHANGED <<clientAlive, socketSlot, socket, userTx, eventRxAlive, running>>
    /\ UNCHANGED <<options, echoed, strategy, readTimeout, inbound, control, trace, iter,
                   runCalls, workers, calls, exitCause>>

ConnectNext ==
    \/ ConnectSocket
    \/ ConfigureAndBuild

ConnectSpec == ConnectInit /\ [][ConnectNext]_vars

\* ========================================================================
\* Properties
\* ========================================================================

\* the loop of the current run has been entered (Activated is behind it)
LoopStarted ==
    IF strategy = "async"
    THEN pc \in {"cmd", "read", "quit", "done"}
    ELSE pc \in InCallback \cup {"returned"}

\* the loop of the current run has been left
LoopExited == IF strategy = "async" THEN pc = "done" ELSE pc = "returned"

Terminal == {"ConnectionClosed", "Error"}

MessageEvents == {"TextMessage", "BinaryMessage", "Ping", "Pong"}

CountOf(K) == Cardinality({i \in DOMAIN trace : trace[i].k \in K})

\* C1: on one async client only the first run() call succeeds and spawns the
\* worker; every later call returns SocketUnavailable, spawns no worker,
\* publishes no event and changes nothing of the client's state.
C1_RunOnlyOnce ==
    [][ (strategy = "async" /\ runCalls' = runCalls + 1) =>
            IF runCalls = 0
            THEN /\ last' = Op("run", "", "Ok")
                 /\ workers' = 1
                 /\ pc' = "spawned"
                 /\ ~socketSlot'
            ELSE /\ last' = Op("run", "", "SocketUnavailable")
                 /\ UNCHANGED <<workers, trace, pc, socketSlot, socket, clientAlive,
                                control, inbound, userTx, eventRxAlive, running, iter,
                                calls, exitCause>> ]_vars

C1_Witness ==
    /\ strategy = "async"
    /\ runCalls = 2
    /\ workers = 1
    /\ last = Op("run", "", "SocketUnavailable")

\* C2: in each strategy every run produces exactly one Activated signal, and
\* it is the first signal of the run: nothing is published or invoked before
\* it, and no event is delivered unless Activated was.
C2_ActivatedOnceFirst ==
    /\ LoopStarted => (trace # <<>> /\ trace[1].k = "Activated")
    /\ \A i \in DOMAIN trace : (trace[i].k = "Activated") <=> (i = 1)
    /\ \A i \in DOMAIN trace : trace[i].ok => trace[1].ok

C2_Witness ==
    /\ LoopStarted
    /\ Len(trace) >= 3
    /\ trace[1].k = "Activated"
    /\ trace[2].k \in MessageEvents
    /\ trace[Len(trace)].k = "Quit"

\* C3: in every strategy a force-quit (the ForceQuit command, a force_quit()
\* call) produces a Quit event / on_quit callback when it ends the loop.
C3_ForceQuitProducesQuit ==
    (LoopExited /\ exitCause = "ForceQuit") =>
        (trace # <<>> /\ trace[Len(trace)].k = "Quit")

\* C4: a ConnectionClosed signal is followed directly by Quit, before the
\* loop exits, with nothing in between; Quit never precedes the
\* ConnectionClosed of the same run.
C4_ClosedThenQuit ==
    \A i \in DOMAIN trace :
        /\ trace[i].k = "ConnectionClosed" =>
              IF i = Len(trace)
              THEN pc \in {"quit", "on_terminal"}
              ELSE i + 1 = Len(trace) /\ trace[i + 1].k = "Quit"
        /\ trace[i].k = "Quit" =>
              \A j \in DOMAIN trace : j > i => trace[j].k # "ConnectionClosed"

C4_Witness ==
    /\ LoopExited
    /\ Len(trace) >= 3
    /\ trace[Len(trace) - 1].k = "ConnectionClosed"
    /\ trace[Len(trace)].k = "Quit"

\* C5 as stated: every Quit is preceded by exactly one terminal signal
\* (one ConnectionClosed or one Error).
C5_ExactlyOneTerminalBeforeQuit ==
    \A i \in DOMAIN trace :
        trace[i].k = "Quit" =>
            Cardinality({j \in 1..(i - 1) : trace[j].k \in Terminal}) = 1

\* C5 amended: Quit is the last signal of a run and there is at most one
\* ConnectionClosed; a Quit that does not come from the ForceQuit command
\* directly follows a terminal ConnectionClosed or Error; in the callback
\* strategies exactly one terminal callback precedes on_quit, while in the
\* async strategy Error events of failed commands may precede the terminal
\* event.
C5_TerminalDirectlyBeforeQuit ==
    /\ CountOf({"ConnectionClosed"}) <= 1
    /\ \A i \in DOMAIN trace :
        trace[i].k = "Quit" =>
            /\ i = Len(trace)
            /\ \/ strategy = "async" /\ exitCause = "ForceQuit"
               \/ i > 1 /\ trace[i - 1].k \in Terminal
            /\ strategy \in CallbackStrategies =>
                  Cardinality({j \in 1..(i - 1) : trace[j].k \in Terminal}) = 1

C5_Witness ==
    /\ strategy = "async"
    /\ pc = "done"
    /\ exitCause = "ReadError"
    /\ Len(trace) >= 4
    /\ trace[Len(trace)].k = "Quit"
    /\ trace[Len(trace) - 1].k = "Error"
    /\ trace[Len(trace) - 2].k = "Error"

\* C6: every Error signal is directly followed by Quit and the end of the
\* loop.
C6_ErrorThenQuit ==
    \A i \in DOMAIN trace :
        trace[i].k = "Error" =>
            IF i = Len(trace)
            THEN pc \in {"quit", "on_terminal"}
            ELSE trace[i + 1].k = "Quit"

\* steps of the model named by what the code was given
AsyncCommandStep == strategy = "async" /\ pc = "cmd" /\ pc' # "cmd" /\ control # <<>>

AsyncFailedSend ==
    AsyncCommandStep /\ Head(control).k \in SendKinds /\ socket'.out = socket.out

AsyncCloseStep == AsyncCommandStep /\ Head(control).k = "Close"

CbFailedSend ==
    calls' = calls + 1 /\ last'.op = "send" /\ socket'.out = socket.out

CbCloseStep == calls' = calls + 1 /\ last'.op = "close"

LoopExits == ~LoopExited /\ LoopExited'

NoDataRead == iter' = iter + 1 /\ last'.arg \in NoDataErrors

\* C7 as stated: a failed send never ends the loop: the async worker
\* publishes Error and goes on to the read of the same iteration, the send
\* helpers of the callback clients return an error and leave the loop state
\* alone; only a failed read, a force-quit or a close frame read ends a loop.
C7_FailedSendContinues ==
    [][ /\ AsyncFailedSend =>
              (trace' = Append(trace, Ev("Error", 0)) /\ pc' = "read")
        /\ CbFailedSend =>
              (last'.res = "Err" /\ UNCHANGED <<pc, running, trace, exitCause>>)
        /\ LoopExits => exitCause' \in {"ReadError", "ForceQuit", "CloseFrame"} ]_vars

\* C7 amended: as C7, except that in the async strategy the worker goes on
\* to the read only if the Error publish succeeded; a failed event publish
\* (no receiver left) breaks the loop, and is the only other way a loop ends.
C7_FailedSendContinuesUnlessPublishFails ==
    [][ /\ AsyncFailedSend =>
              /\ trace' = Published("Error", 0)
              /\ pc' = (IF eventRxAlive THEN "read" ELSE "done")
              /\ exitCause' = (IF eventRxAlive THEN exitCause ELSE "PublishFailed")
        /\ CbFailedSend =>
              (last'.res = "Err" /\ UNCHANGED <<pc, running, trace, exitCause>>)
        /\ LoopExits =>
              /\ exitCause' \in {"ReadError", "ForceQuit", "CloseFrame", "PublishFailed"}
              /\ exitCause' = "PublishFailed" => (strategy = "async" /\ ~eventRxAlive) ]_vars

C7_Witness ==
    /\ strategy = "async"
    /\ pc = "read"
    /\ last = Op("command", "SendText", "Err")
    /\ trace[Len(trace)] = Ev("Error", 0)
    /\ socket.out = <<>>

\* C8 as stated: applying Close never ends the loop, and once a close frame
\* was sent the loop ends only by a close frame read, a fatal read error or
\* a force-quit.
C8_CloseNeverTerminates ==
    [][ /\ AsyncCloseStep => (pc' = "read" /\ UNCHANGED <<trace, exitCause>>)
        /\ CbCloseStep => UNCHANGED <<pc, running, trace, exitCause>>
        /\ (LoopExits /\ socket.closeSent >= 1) =>
              exitCause' \in {"ReadError", "ForceQuit", "CloseFrame"} ]_vars

\* C8 amended: as C8, with one more way for the async loop to end after a
\* Close: an event publish that fails because no receiver is left.
C8_CloseNeverTerminatesButPublish ==
    [][ /\ AsyncCloseStep => (pc' = "read" /\ UNCHANGED <<trace, exitCause>>)
        /\ CbCloseStep => UNCHANGED <<pc, running, trace, exitCause>>
        /\ (LoopExits /\ socket.closeSent >= 1) =>
              /\ exitCause' \in {"ReadError", "ForceQuit", "CloseFrame", "PublishFailed"}
              /\ exitCause' = "PublishFailed" => (strategy = "async" /\ ~eventRxAlive) ]_vars

C8_Witness ==
    /\ strategy = "async"
    /\ ~socketSlot
    /\ socket.closeSent = 1
    /\ pc = "cmd"
    /\ iter >= 1

\* C9: over any sequence of Close commands, close() calls and the drop, at
\* most one close frame is sent; a Close on a socket that can no longer write
\* sends nothing, reports no error and leaves the loop state unchanged.
C9_CloseIdempotent ==
    [][ /\ socket'.closeSent <= 1
        /\ (AsyncCloseStep /\ ~socket.canWrite) =>
              (socket' = socket /\ pc' = "read" /\ UNCHANGED <<trace, exitCause>>)
        /\ (CbCloseStep /\ ~socket.canWrite) =>
              (socket' = socket /\ UNCHANGED <<pc, running, trace, exitCause>>)
        /\ (clientAlive /\ ~clientAlive' /\ ~socket.canWrite) => socket' = socket ]_vars

C9_Witness ==
    /\ strategy \in CallbackStrategies
    /\ socket.closeSent = 1
    /\ last = Op("close", "noop", "")

\* C10 as stated: in every strategy a read that fails with would-block or
\* timed-out produces no error, does not end the loop and shows at most as an
\* idle notification.
C10_NoDataNeverError ==
    [][ NoDataRead =>
            /\ pc' \in {"cmd", "on_idle"}
            /\ trace' = trace \/ trace' = Append(trace, Ev("Idle", 0)) ]_vars

\* C10 amended: a would-block / timed-out read is no error in the async
\* strategy (no event, the loop continues), in the non-blocking strategy and
\* in the blocking strategy with a read timeout configured (on_idle, the loop
\* continues); in the blocking strategy without a read timeout it is fatal:
\* on_error, then the terminal path.
C10_NoDataIdleUnlessBlockingNoTimeout ==
    [][ NoDataRead =>
            IF strategy = "blocking" /\ ~readTimeout
            THEN trace' = Append(trace, Ev("Error", 0)) /\ pc' = "on_terminal"
            ELSE IF strategy = "async"
                 THEN trace' = trace /\ pc' = "cmd"
                 ELSE trace' = Append(trace, Ev("Idle", 0)) /\ pc' = "on_idle" ]_vars

C10_Witness ==
    /\ strategy = "blocking"
    /\ readTimeout
    /\ pc = "on_idle"
    /\ last = Op("read", "TimedOut", "")
    /\ trace[Len(trace)] = Ev("Idle", 0)

\* C17: options are validated when they are built: a duration setter given
\* Some(zero) returns InvalidConfiguration and yields no options value, given
\* None or a nonzero duration it returns Ok with the field set; so no options
\* value that exists holds a zero duration.
C17_NoZeroDuration ==
    /\ \A f \in DurationSetters : ~(options[f].some /\ options[f].d = 0)
    /\ last.op \in DurationSetters =>
          IF last.arg.some /\ last.arg.d = 0
          THEN last.res = "InvalidConfiguration" /\ options = NoOptions
          ELSE last.res = "Ok" /\ options[last.op] = last.arg /\ options.kind \in OptionKinds
    /\ last.op \in {"new", "nodelay", "ttl"} => (last.res = "Ok" /\ options.kind \in OptionKinds)

C17_Witness ==
    /\ last = Op("read_timeout", SomeDuration(0), "InvalidConfiguration")
    /\ options = NoOptions

\* a step that performs the iteration's socket.read()
ReadStep == iter' = iter + 1

\* C11: a read failure that is neither would-block / timed-out nor the
\* engine's ConnectionClosed is reported as Error (never ConnectionClosed)
\* and leads to the terminal path (Quit, break).
C11_OtherReadErrorIsError ==
    (last.op = "read" /\ last.arg \in {"Other", "OtherClosedText"}) =>
        /\ trace[Len(trace)].k = "Error"
        /\ pc \in {"quit", "on_terminal"}

\* C12: in every strategy a read that fails with the engine's
\* ConnectionClosed is reported as ConnectionClosed (never Error); the next
\* step of the loop is Quit / on_quit, after which the loop is left.
C12_ClosedReadIsConnectionClosed ==
    [][ /\ (ReadStep /\ last'.arg = "ConnectionClosed") =>
              /\ Len(trace') = Len(trace) + 1
              /\ trace'[Len(trace')].k = "ConnectionClosed"
              /\ pc' \in {"quit", "on_terminal"}
        /\ (pc \in {"quit", "on_terminal"} /\ pc' # pc) =>
              /\ Len(trace') = Len(trace) + 1
              /\ trace'[Len(trace')].k = "Quit"
              /\ pc' \in {"done", "on_quit"}
        /\ (pc = "on_quit" /\ pc' # pc) => pc' = "returned" ]_vars

C12_Witness ==
    /\ strategy = "blocking"
    /\ pc = "returned"
    /\ exitCause = "ReadError"
    /\ Len(trace) >= 4
    /\ trace[Len(trace) - 1].k = "ConnectionClosed"
    /\ trace[Len(trace)].k = "Quit"

\* C13: in the blocking strategy a would-block / timed-out read invokes
\* on_idle and the loop goes on when a read timeout was configured; without
\* a read timeout it is fatal: on_error, then on_quit, and run() returns.
C13_BlockingTimeout ==
    strategy = "blocking" =>
        /\ (last.op = "read" /\ last.arg \in NoDataErrors) =>
              IF readTimeout
              THEN /\ trace[Len(trace)] = Ev("Idle", 0)
                   /\ pc = "on_idle"
                   /\ exitCause = "none"
              ELSE /\ trace[Len(trace)] = Ev("Error", 0)
                   /\ pc = "on_terminal"
                   /\ exitCause = "ReadError"
        /\ (~readTimeout /\ pc \in {"on_quit", "returned"} /\ exitCause = "ReadError") =>
              /\ trace[Len(trace)].k = "Quit"
              /\ trace[Len(trace) - 1].k \in Terminal
              /\ CountOf({"Idle"}) = 0

C13_Witness ==
    /\ strategy = "blocking"
    /\ ~readTimeout
    /\ pc = "returned"
    /\ iter = 2
    /\ trace[Len(trace) - 1] = Ev("Error", 0)
    /\ trace[Len(trace)] = Ev("Quit", 0)
    /\ trace[Len(trace) - 3].k \in MessageEvents

\* no message and no terminal condition was read in the current run
NothingRead == CountOf(MessageEvents \cup Terminal) = 0

\* C15: in the non-blocking strategy a read that finds no inbound data
\* queued never invokes a message callback; unless it fails fatally it
\* invokes on_idle, so a run in which nothing was read has had one on_idle
\* per iteration.
C15_NonBlockingIdleEveryIteration ==
    [][ strategy = "nonblocking" =>
          /\ (ReadStep /\ inbound = <<>>) =>
                /\ trace'[Len(trace')].k \notin MessageEvents
                /\ last'.arg \in ReadErrors
                /\ last'.arg \in NoDataErrors =>
                      (trace' = Append(trace, Ev("Idle", 0)) /\ pc' = "on_idle")
                /\ last'.arg \notin NoDataErrors => pc' = "on_terminal"
          /\ (LoopStarted /\ NothingRead)' => (CountOf({"Idle"}) = iter)' ]_vars

C15_Witness ==
    /\ strategy = "nonblocking"
    /\ pc = "on_idle"
    /\ iter = 2
    /\ trace = <<Ev("Activated", 0), Ev("Poll", 0), Ev("Idle", 0), Ev("Poll", 0), Ev("Idle", 0)>>

\* a step that invokes on_idle
IdleInvoked == trace' = Append(trace, Ev("Idle", 0))

\* a step that invokes a callback when the last one invoked was on_idle
InvokedAfterIdle == trace # <<>> /\ trace[Len(trace)].k = "Idle" /\ trace' # trace

\* C16: in the callback strategies on_idle is invoked only by a read that
\* yielded no data, directly after that iteration's on_poll, and nothing
\* else is invoked in that iteration: the next callback is the next on_poll
\* (or the on_activated of a later run); a read that yields a message or a
\* terminal condition never invokes on_idle.
C16_IdleOnlyOnNoData ==
    [][ (strategy \in CallbackStrategies) =>
          /\ IdleInvoked => (NoDataRead /\ trace[Len(trace)].k = "Poll")
          /\ (ReadStep /\ last'.arg \notin NoDataErrors) => ~IdleInvoked
          /\ InvokedAfterIdle => (trace' = Append(trace, Ev("Poll", 0)) \/ Len(trace') = 1)
       ]_vars

C16_Witness ==
    /\ strategy = "blocking"
    /\ readTimeout
    /\ iter = 2
    /\ Len(trace) = 5
    /\ trace[3].k \in MessageEvents
    /\ trace[4].k = "Poll"
    /\ trace[5].k = "Idle"

\* a step of the async worker that uses the connection
WorkerSocketStep == pc \in {"cmd", "read"} /\ pc' # pc /\ last'.op \in {"command", "read"}

\* C19: once run() has moved the connection to the worker the client holds
\* none (get_socket / get_socket_mut return None, for good), at most one
\* worker ever exists, and every read from or write to the connection is a
\* step of that worker.
C19_SingleOwner ==
    [][ strategy = "async" =>
          /\ workers' <= 1
          /\ (workers' = 1) <=> (GetSocket' = "None")
          /\ (GetSocket = "None") => (GetSocket' = "None")
          /\ (GetSocket = "None" /\ (socket' # socket \/ Len(inbound') < Len(inbound))) =>
                WorkerSocketStep ]_vars

C19_Witness ==
    /\ strategy = "async"
    /\ workers = 1
    /\ runCalls = 2
    /\ GetSocket = "None"
    /\ ~clientAlive
    /\ Len(socket.out) = 1
    /\ socket.closeSent = 1

\* the client struct is dropped
ClientDropped == clientAlive /\ ~clientAlive'

\* the async worker leaves its loop: the thread ends and the connection it
\* owns is discarded
WorkerExits == strategy = "async" /\ pc # "done" /\ pc' = "done"

SendTextStep == AsyncCommandStep /\ Head(control).k = "SendText"

\* every text frame the peer has echoed was read and published as one
\* TextMessage, or is still queued to be read: same payloads, same order
EchoesAccounted ==
    PayloadsOf(trace, "TextMessage") \o PayloadsOf(inbound, "Text")
        = SubSeq(PayloadsOf(socket.out, "Text"), 1, echoed)

\* C18: round trip in the async strategy with an echoing peer: a SendText(x)
\* the worker takes is sent as exactly one text frame with payload x (or, if
\* the engine's send fails, as none, with an Error event), text frames go
\* out by nothing else, and every echoed frame gives exactly one
\* TextMessage(x) publish when it has been read.
C18_TextRoundTrip ==
    [][ /\ SendTextStep =>
              \/ socket'.out = Append(socket.out, [k |-> "Text", p |-> Head(control).p])
              \/ (socket'.out = socket.out /\ trace' = Published("Error", 0))
        /\ (PayloadsOf(socket'.out, "Text") # PayloadsOf(socket.out, "Text")) => SendTextStep
        /\ EchoesAccounted' ]_vars

C18_Witness ==
    /\ echoed = 2
    /\ inbound = <<>>
    /\ PayloadsOf(socket.out, "Text") = <<1, 1>>
    /\ SelectSeq(trace, LAMBDA e : e.k = "TextMessage")
          = <<Ev("TextMessage", 1), Ev("TextMessage", 1)>>

\* run() of a callback client is executing
InLoop == pc \in InCallback

CloseFailStep == socket'.closeFailed = socket.closeFailed + 1

\* C21: a close-frame send that fails (Close command, close(), drop) is only
\* logged: no event is published and no callback invoked, the call returns
\* Ok(Continue) / unit, the loop goes on as it would have (the worker to the
\* read of the iteration, a callback client where it was), and no second
\* close is ever attempted on the connection.
C21_CloseFailureOnlyLogged ==
    [][ /\ CloseFailStep =>
              /\ UNCHANGED <<trace, running, exitCause, iter, inbound>>
              /\ control' = (IF AsyncCommandStep THEN Tail(control) ELSE control)
              /\ pc' = (IF AsyncCommandStep THEN "read" ELSE pc)
              /\ last'.res \in {"", "Continue"}
              /\ socket'.out = socket.out /\ socket'.closeSent = socket.closeSent
        /\ CloseAttempts(socket') <= 1 ]_vars

C21_Witness ==
    /\ strategy = "async"
    /\ socket.closeFailed = 1
    /\ socket.closeSent = 0
    /\ pc = "cmd"
    /\ iter = 1
    /\ control # <<>>
    /\ Head(control).k = "Close"
    /\ trace = <<Ev("Activated", 0)>>

\* the worker applies a ForceQuit command / force_quit() is called
AsyncForceQuitStep == AsyncCommandStep /\ Head(control).k = "ForceQuit"

CbForceQuitStep == calls' = calls + 1 /\ last'.op = "force_quit"

\* C22: force-quit performs no socket operation: the step that applies the
\* ForceQuit command or calls force_quit() leaves the connection as it was
\* (no close frame, no other frame, nothing read) and changes only the
\* termination state of the loop: the worker takes the command, publishes
\* Quit and leaves the loop; force_quit() clears the running flag.
C22_ForceQuitNoSocketOp ==
    [][ /\ AsyncForceQuitStep =>
              /\ UNCHANGED <<socket, inbound, iter, clientAlive, socketSlot, userTx,
                             eventRxAlive, running, runCalls, workers>>
              /\ control' = Tail(control)
              /\ trace' = Published("Quit", 0)
              /\ pc' = "done"
              /\ exitCause' = "ForceQuit"
        /\ CbForceQuitStep =>
              /\ UNCHANGED <<socket, inbound, iter, clientAlive, socketSlot, userTx,
                             eventRxAlive, control, runCalls, workers, pc, trace, exitCause>>
              /\ ~running' ]_vars

C22_Witness ==
    /\ strategy = "async"
    /\ pc = "done"
    /\ exitCause = "ForceQuit"
    /\ iter = 1
    /\ last = Op("command", "ForceQuit", "Break")
    /\ socket.canWrite
    /\ CloseAttempts(socket) = 0
    /\ Len(socket.out) = 1

\* the worker has published ConnectionClosed, then Quit, and has terminated
ClosedGracefully ==
    /\ pc = "done"
    /\ Len(trace) >= 3
    /\ trace[Len(trace) - 1] = Ev("ConnectionClosed", 0)
    /\ trace[Len(trace)] = Ev("Quit", 0)

\* the worker is in its loop and still has iterations left in the model
WorkerCanRead == pc = "read" \/ (pc = "cmd" /\ iter < MaxIter)

\* C23: graceful close in the async strategy (working connection, event
\* receiver kept, no ForceQuit): after the worker has applied Close and sent
\* the close frame, the loop goes on; once the peer's close frame is the next
\* message to read the worker reads it, publishes ConnectionClosed, then
\* Quit, and terminates; the worker terminates in no other way, and it does
\* terminate (within the iterations of the model).
C23_GracefulCloseCompletes ==
    /\ [](pc = "done" => (exitCause = "CloseFrame" /\ ClosedGracefully))
    /\ (socket.closeSent >= 1 /\ WorkerCanRead /\ inbound # <<>> /\ Head(inbound).k = "Close")
          ~> ClosedGracefully
    /\ (socket.closeSent >= 1 /\ pc \in {"cmd", "read"})
          ~> (ClosedGracefully \/ (pc = "cmd" /\ iter = MaxIter))

C23_Witness ==
    /\ ClosedGracefully
    /\ socket.closeSent = 1
    /\ echoed = 1
    /\ iter = 2
    /\ Len(trace) = 4
    /\ trace[2].k \in MessageEvents

\* C24: in the async strategy Quit is the final event of a run: at most one
\* Quit is published, nothing is published after it, and a worker that has
\* left its loop while an event receiver is alive has published Quit (and it
\* was delivered).
C24_QuitIsFinal ==
    strategy = "async" =>
        /\ CountOf({"Quit"}) <= 1
        /\ \A i \in DOMAIN trace : trace[i].k = "Quit" => (i = Len(trace) /\ pc = "done")
        /\ (pc = "done" /\ eventRxAlive) =>
              (trace # <<>> /\ trace[Len(trace)] = Ev("Quit", 0))

C24_Witness ==
    /\ strategy = "async"
    /\ pc = "done"
    /\ eventRxAlive
    /\ exitCause = "ForceQuit"
    /\ Len(trace) = 3
    /\ trace[2].k = "Error"
    /\ trace[3] = Ev("Quit", 0)

\* an event publish of the current run has failed / has failed in the loop
\* (the first entry of the trace is the Activated sent before the loop)
PublishFailed == \E i \in DOMAIN trace : ~trace[i].ok

PublishFailedInLoop == \E i \in DOMAIN trace : i > 1 /\ ~trace[i].ok

\* C25 as stated: in the async worker the first failed publish, whatever the
\* event, ends the loop: after it the worker only terminates and never reads
\* again.
C25_FailedPublishFatal ==
    (strategy = "async" /\ PublishFailed) => pc \in {"quit", "done"}

\* C25 amended: a failed publish inside the loop ends the loop without
\* another read: a data message or the Error of a failed command breaks at
\* once, a terminal event is followed by the Quit publish and break whether
\* or not it fails; the Activated publish before the loop is only logged
\* when it fails, and the worker goes on into the loop; a publish never
\* succeeds after one has failed.
C25_FailedPublishFatalInLoop ==
    strategy = "async" =>
        /\ PublishFailedInLoop => pc \in {"quit", "done"}
        /\ \A i \in DOMAIN trace :
              (~trace[i].ok /\ trace[i].k \notin Terminal \cup {"Quit", "Activated"}) =>
                  (i = Len(trace) /\ pc = "done" /\ exitCause = "PublishFailed")
        /\ \A i, j \in DOMAIN trace : (i < j /\ ~trace[i].ok) => ~trace[j].ok

C25_Witness ==
    /\ strategy = "async"
    /\ pc = "done"
    /\ exitCause = "PublishFailed"
    /\ iter = 2
    /\ Len(trace) = 2
    /\ trace[1] = [k |-> "Activated", p |-> 0, ok |-> FALSE]
    /\ trace[2].k \in MessageEvents
    /\ ~trace[2].ok

\* the command channel changes
ControlChanges == control' # control

\* a command is accepted by the channel: control_tx.send returned Ok
EnqueueStep == calls' = calls + 1 /\ \E c \in ControlMessage : control' = Append(control, c)

\* C26: the command channel is FIFO: a command is added at the end, the
\* worker takes the oldest command and applies that one to the connection
\* (its frame, its close, its break), a command taken is removed from the
\* channel (so it is applied at most once), with a command pending the
\* worker never passes to the read without taking one, and nothing else
\* changes the channel.
C26_CommandsFifo ==
    [][ (strategy = "async") =>
          /\ AsyncCommandStep =>
                /\ control' = Tail(control)
                /\ last'.op = "command" /\ last'.arg = Head(control).k
                /\ \E ok \in BOOLEAN :
                      LET r == HandleControlMessage(Head(control), socket, ok)
                      IN  socket' = r.sock /\ last'.res = r.flow
          /\ ControlChanges => (AsyncCommandStep \/ EnqueueStep) ]_vars

C26_Witness ==
    /\ strategy = "async"
    /\ calls = 2
    /\ control = <<>>
    /\ iter = 1
    /\ pc = "read"
    /\ last = Op("command", "Close", "Continue")
    /\ socket.out = <<[k |-> "Binary", p |-> 1]>>
    /\ socket.closeSent = 1

\* a step whose read returned a data message
DataReadStep == ReadStep /\ last'.arg \in DataKinds

\* the signals of the run so far are kept, in order
TraceKept == Len(trace') >= Len(trace) /\ SubSeq(trace', 1, Len(trace)) = trace

\* a step that adds a message event / callback to the signals of the run
MessageSignalled ==
    /\ Len(trace') > Len(trace)
    /\ \E i \in (Len(trace) + 1)..Len(trace') : trace'[i].k \in MessageEvents

\* C27: inbound messages are delivered as they are read: the step that reads
\* a text, binary, ping or pong message takes the oldest unread message and
\* adds exactly one signal for it, of its kind and with its payload, at the
\* end of the run's signals (in the async strategy the publish, which fails
\* only when no receiver is left); no other step adds a message signal, and
\* the signals of a run are never dropped or reordered afterwards.
C27_InboundInOrder ==
    [][ /\ DataReadStep =>
              /\ inbound # <<>> /\ inbound' = Tail(inbound)
              /\ last'.arg = Head(inbound).k
              /\ trace' = Append(trace, [k |-> EventOf(Head(inbound).k),
                                         p |-> Head(inbound).p,
                                         ok |-> (strategy = "async" => eventRxAlive)])
        /\ MessageSignalled => DataReadStep
        /\ TraceKept \/ (strategy \in CallbackStrategies /\ runCalls' = runCalls + 1) ]_vars

C27_Witness ==
    /\ strategy = "nonblocking"
    /\ iter = 2
    /\ pc = "on_message"
    /\ trace = <<Ev("Activated", 0), Ev("Poll", 0), Ev("Ping", 1), Ev("Poll", 0),
                 Ev("TextMessage", 1)>>

\* a connect call has returned an error
ConnectFailed == last.op = "connect" /\ pc = "failed"

\* the transport could not be set up: an I/O error of the engine, no TCP
\* connection to any address of the host, or an I/O error of a socket option
TransportFailure ==
    last.arg.engine \in {"Io", "UrlUnableToConnect"} \/ last.arg.failed # "none"

\* C28: a failed connect returns a typed error and no client: InvalidUri for
\* a URI that does not parse (or that the engine cannot use), Io for a
\* transport failure, and the wrapped engine error (Tungstenite) for a
\* failure of the handshake.
C28_ConnectFailuresTyped ==
    ConnectFailed =>
        /\ ~clientAlive /\ ~socketSlot /\ ~socket.canWrite
        /\ last.arg.uri = "malformed" => last.res = "InvalidUri"
        /\ last.arg.engine \in {"UrlUnsupportedUrlScheme", "UrlNoHostName"} =>
              last.res = "InvalidUri"
        /\ TransportFailure => last.res = "Io"
        /\ last.arg.engine \in HandshakeErrors => last.res = "Tungstenite"

\* the worker is at the command step of an iteration with nothing queued
EmptyFetch == strategy = "async" /\ pc = "cmd" /\ control = <<>>

\* C29: the async worker (the one loop with a command queue) takes at most
\* one command per iteration, by a fetch that does not wait: a step removes
\* at most one command, only the command step of an iteration removes one,
\* and that step is taken once per iteration (it is reached from the
\* previous iteration's read); with nothing queued the command step is
\* still enabled and goes straight to the read, changing nothing.
C29_OneCommandPerIteration ==
    /\ [][ (strategy = "async") =>
             /\ Len(control') >= Len(control) - 1
             /\ Len(control') < Len(control) => AsyncCommandStep
             /\ (pc # "cmd" /\ pc' = "cmd") =>
                   (pc = "spawned" \/ (pc = "read" /\ iter' = iter + 1))
             /\ (EmptyFetch /\ pc' # pc) =>
                   (pc' = "read" /\ UNCHANGED <<socket, inbound, control, trace, iter, exitCause>>)
          ]_vars
    /\ []((EmptyFetch /\ iter < MaxIter) => ENABLED WorkerCommand)

C29_Witness ==
    /\ strategy = "async"
    /\ calls = 2
    /\ control = <<>>
    /\ iter = 1
    /\ pc = "read"
    /\ Len(socket.out) = 2
    /\ trace = <<Ev("Activated", 0)>>

\* C30: in an iteration of the async worker the command step comes before
\* the read: the read step is entered only from the command step of the same
\* iteration (after the command taken there, if any, was applied), the
\* command step itself reads nothing, and a ForceQuit taken there ends the
\* loop at once, after which the worker never reads.
C30_CommandBeforeRead ==
    [][ (strategy = "async") =>
          /\ ReadStep => pc = "read"
          /\ (pc # "read" /\ pc' = "read") =>
                /\ pc = "cmd"
                /\ iter' = iter /\ inbound' = inbound
                /\ control # <<>> =>
                      /\ control' = Tail(control)
                      /\ Head(control).k # "ForceQuit"
                      /\ \E ok \in BOOLEAN :
                            socket' = HandleControlMessage(Head(control), socket, ok).sock
          /\ AsyncForceQuitStep => (pc' = "done" /\ iter' = iter /\ inbound' = inbound)
          /\ pc = "done" => (pc' = "done" /\ iter' = iter /\ Len(inbound') >= Len(inbound)) ]_vars

C30_Witness ==
    /\ strategy = "async"
    /\ pc = "done"
    /\ exitCause = "ForceQuit"
    /\ iter = 1
    /\ inbound # <<>>
    /\ Len(trace) = 3
    /\ trace[2].k \in MessageEvents
    /\ trace[3] = Ev("Quit", 0)

\* a command and an inbound message are pending at once in the running
\* async worker
CommandAndMessagePending ==
    strategy = "async" /\ pc \in {"cmd", "read"} /\ control # <<>> /\ inbound # <<>>

\* the worker can read the message while the command stays queued
MessageFirst == ENABLED (WorkerRead /\ inbound' = Tail(inbound) /\ control' = control)

\* the worker can apply the command while the message stays unread
CommandFirst == ENABLED (WorkerCommand /\ control' = Tail(control) /\ inbound' = inbound)

\* C31: the command channel and the inbound messages are not ordered against
\* each other: with a command and a message both pending, the position of
\* the worker in its iteration alone decides which comes first: at the read
\* step the message is read before the command is applied, at the command
\* step the command is applied before the message is read.
C31_NoCrossChannelOrder ==
    CommandAndMessagePending =>
        /\ pc = "read" => MessageFirst
        /\ (pc = "cmd" /\ iter < MaxIter) => CommandFirst

C31_Witness ==
    /\ CommandAndMessagePending
    /\ pc = "cmd"
    /\ iter = 1
    /\ calls = 1
    /\ last = Op("read", "Text", "")
    /\ trace = <<Ev("Activated", 0), Ev("TextMessage", 1)>>

\* the callbacks of the loop body that follow on_poll within an iteration
IterationCallbacks == MessageEvents \cup {"Idle"}

\* the callbacks invoked so far in a run of a callback client form a prefix
\* of: Activated, then iterations (Poll, then at most one message callback
\* or Idle), then one terminal callback, then Quit
LifecyclePrefix(t) ==
    /\ t # <<>> => t[1].k = "Activated"
    /\ \A i \in 2..Len(t) :
          CASE t[i].k = "Poll" -> t[i - 1].k \in {"Activated", "Poll"} \cup IterationCallbacks
            [] t[i].k \in IterationCallbacks -> t[i - 1].k = "Poll"
            [] t[i].k \in Terminal -> t[i - 1].k = "Poll"
            [] t[i].k = "Quit" -> t[i - 1].k \in Terminal /\ i = Len(t)
            [] OTHER -> FALSE

\* the whole lifecycle: the prefix has reached Quit through one terminal
\* callback
LifecycleComplete(t) ==
    /\ LifecyclePrefix(t)
    /\ Len(t) >= 4
    /\ t[Len(t)].k = "Quit"
    /\ Cardinality({i \in DOMAIN t : t[i].k \in Terminal}) = 1

\* C32: the callbacks of a run of the blocking or non-blocking client follow
\* the lifecycle at every moment, and when run() has returned they are a
\* whole lifecycle: on_activated once, iterations of on_poll with at most one
\* message callback or on_idle, exactly one of on_connection_closed /
\* on_error, then on_quit as the last callback.
C32_CallbackLifecycle ==
    (strategy \in CallbackStrategies /\ runCalls >= 1) =>
        /\ LifecyclePrefix(trace)
        /\ pc = "returned" => LifecycleComplete(trace)


\* the signal the documentation gives to each kind of message: the
\* WebSocketEvent variant and the handler callback of the same name
SignalOfKind ==
    {<<"Text", "TextMessage">>, <<"Binary", "BinaryMessage">>, <<"Ping", "Ping">>, <<"Pong", "Pong">>}

\* a step whose read returned a message (data or close frame)
MessageReadStep == ReadStep /\ last'.arg \in DataKinds \cup {"Close"}

\* the loop is on its way out after a close frame was read
ClosingAfterCloseFrame == pc \in {"quit", "on_terminal"} /\ exitCause = "CloseFrame"

\* the one signal a step has added to the signals of the run
AddedSignal == trace'[Len(trace')]

\* C33: the step that reads a message takes the oldest unread message and
\* adds exactly one signal: for a text, binary, ping or pong message the
\* signal of that kind with the message's payload, and the loop goes on
\* (unless the async publish failed); for a close frame ConnectionClosed, and
\* then the loop only leaves through the Quit signal, without another poll,
\* command or read.
C33_DispatchByKind ==
    [][ /\ MessageReadStep =>
              /\ inbound # <<>>
              /\ Len(trace') = Len(trace) + 1 /\ TraceKept
              /\ AddedSignal.p = Head(inbound).p
              /\ IF Head(inbound).k = "Close"
                 THEN /\ AddedSignal.k = "ConnectionClosed"
                      /\ ClosingAfterCloseFrame'
                 ELSE /\ <<Head(inbound).k, AddedSignal.k>> \in SignalOfKind
                      /\ pc' \in {"cmd", "on_message", "done"}
                      /\ pc' = "done" => ~AddedSignal.ok
        /\ (ClosingAfterCloseFrame /\ (pc' # pc \/ trace' # trace)) =>
              /\ trace' = Append(trace, [k |-> "Quit", p |-> 0,
                                         ok |-> (strategy = "async" => eventRxAlive)])
              /\ pc' \in {"done", "on_quit"}
              /\ iter' = iter ]_vars

C33_Witness ==
    /\ strategy = "blocking"
    /\ pc = "returned" /\ exitCause = "CloseFrame"
    /\ trace = <<Ev("Activated", 0), Ev("Poll", 0), Ev("BinaryMessage", 1), Ev("Poll", 0),
                 Ev("ConnectionClosed", 0), Ev("Quit", 0)>>


\* a step of a callback client's run() that leaves the on_poll callback
LeavesOnPoll == strategy \in CallbackStrategies /\ pc = "on_poll" /\ pc' # pc

\* run() returns through the loop condition
ForceQuitExit ==
    strategy \in CallbackStrategies /\ pc # "returned" /\ pc' = "returned" /\ exitCause' = "ForceQuit"

CbRunStep == strategy \in CallbackStrategies /\ runCalls' = runCalls + 1

BeforeLoop == pc \in {"init", "spawned"}

\* the worker comes to the command step of an iteration
EntersCommandStep == pc # "cmd" /\ pc' = "cmd"

\* C36: commands sent before the worker's loop runs stay in the channel:
\* until then the channel only grows at its end (run() and the Activated
\* publish leave it alone); a command is applied only after Activated was
\* published, it is the oldest one queued, and the worker comes back to the
\* command step only through a read, so one command is applied per
\* iteration.
C36_EarlyCommandsKept ==
    [][ (strategy = "async") =>
          /\ BeforeLoop => (control' = control \/ EnqueueStep)
          /\ AsyncCommandStep =>
                /\ trace # <<>> /\ trace[1].k = "Activated"
                /\ control' = Tail(control) /\ last'.arg = Head(control).k
                /\ socket' = HandleControlMessage(Head(control), socket, TRUE).sock
                   \/ socket' = HandleControlMessage(Head(control), socket, FALSE).sock
                /\ pc' \in {"read", "done"}
          /\ EntersCommandStep => (pc = "spawned" \/ (pc = "read" /\ ReadStep)) ]_vars

C36_Witness ==
    /\ strategy = "async" /\ pc = "spawned"
    /\ last = Op("run", "", "Ok")
    /\ control = <<[k |-> "SendText", p |-> 1], [k |-> "Close", p |-> 0]>>
    /\ trace = <<>>


\* the worker thread has ended
WorkerTerminated == strategy = "async" /\ pc = "done"

\* a call of control_tx.send
SendCommandStep == calls' = calls + 1 /\ last'.op = "enqueue"

\* C37: once the worker has ended it stays ended; a command sent then is
\* accepted (Ok, queued at the end of the channel) as long as the client
\* struct is alive, and from then on nothing takes a command from the
\* channel, nothing is written to the connection and no event is published.
C37_CommandsAfterWorkerEnd ==
    [][ WorkerTerminated =>
          /\ pc' = "done" /\ workers' = workers
          /\ (SendCommandStep /\ clientAlive) =>
                /\ last'.res = "Ok"
                /\ Len(control') = Len(control) + 1
          /\ Len(control') >= Len(control) /\ SubSeq(control', 1, Len(control)) = control
          /\ socket' = socket /\ trace' = trace /\ iter' = iter ]_vars

C37_Witness ==
    /\ WorkerTerminated /\ clientAlive
    /\ exitCause = "CloseFrame"
    /\ last = Op("enqueue", "", "Ok")
    /\ control = <<[k |-> "SendText", p |-> 1]>>
    /\ socket.out = <<>>
    /\ trace = <<Ev("Activated", 0), Ev("ConnectionClosed", 0), Ev("Quit", 0)>>


\* the async client struct has been dropped
AfterDrop == strategy = "async" /\ ~clientAlive

\* the drop of an async client whose socket was moved to a worker by run()
DropAfterRun == strategy = "async" /\ ClientDropped /\ ~socketSlot

\* the worker leaves its loop: a break, with or without the terminal path
WorkerLeavesLoop == strategy = "async" /\ pc \in {"cmd", "read"} /\ pc' \in {"quit", "done"}

\* what the drop of the client leaves alone, and the iterations that follow
\* it with nothing to do: the drop writes no close frame and does not move
\* the worker; a command step that finds no command goes on to the read; a
\* read without data goes on to the next iteration, with nothing published
DropLeavesWorkerIterating ==
    /\ DropAfterRun => (socket' = socket /\ pc' = pc /\ trace' = trace /\ iter' = iter)
    /\ (AfterDrop /\ EmptyFetch /\ pc' # pc) =>
          (pc' = "read" /\ trace' = trace /\ socket' = socket)
    /\ (AfterDrop /\ NoDataRead) => (pc' = "cmd" /\ trace' = trace)

\* C38 as stated: after the drop of the client the worker goes on iterating;
\* every event it publishes then fails, and it leaves its loop only at a
\* publish that failed, at a read error or at a close frame.
C38_DroppedWorkerEndsAtPublish ==
    [][ /\ DropLeavesWorkerIterating
        /\ (AfterDrop /\ trace' # trace) => ~AddedSignal.ok
        /\ (AfterDrop /\ WorkerLeavesLoop) =>
              \/ exitCause' = "PublishFailed" /\ trace' # trace
              \/ pc = "read" /\ exitCause' \in {"ReadError", "CloseFrame"} ]_vars

\* C38, amended: after the drop of the client the worker goes on iterating;
\* it leaves its loop only at a ForceQuit command (one still queued at the
\* drop, or sent through a clone of the command sender), at a read error, at
\* a close frame, or at the publish of a data message or of a failed
\* command's Error that fails; a publish fails exactly when no clone of the
\* event receiver is left.
C38_DroppedWorkerEnds ==
    [][ /\ DropLeavesWorkerIterating
        /\ (AfterDrop /\ trace' # trace) =>
              (Len(trace') = Len(trace) + 1 /\ AddedSignal.ok = eventRxAlive)
        /\ (AfterDrop /\ WorkerLeavesLoop) =>
              \/ /\ pc = "cmd" /\ control # <<>> /\ Head(control).k = "ForceQuit"
                 /\ exitCause' = "ForceQuit"
              \/ /\ exitCause' = "PublishFailed" /\ ~eventRxAlive /\ trace' # trace
                 /\ AddedSignal.k \in MessageEvents \cup {"Error"}
              \/ /\ pc = "read" /\ exitCause' \in {"ReadError", "CloseFrame"}
                 /\ last'.arg \in FatalReadErrors \cup {"Close"} ]_vars

C38_Witness ==
    /\ AfterDrop /\ pc = "cmd" /\ iter = 2
    /\ last = Op("read", "WouldBlock", "")
    /\ control = <<>> /\ calls = 0
    /\ socket.canWrite /\ CloseAttempts(socket) = 0
    /\ trace = <<Ev("Activated", 0)>>


\* a command step whose command failed: handle_control_message returned Err
FailedCommandStep == AsyncCommandStep /\ last'.res = "Err"

\* a read step that ends the loop: a close frame or a fatal read error
TerminalReadStep == ReadStep /\ last'.arg \in FatalReadErrors \cup {"Close"}

\* C39: the async worker publishes nothing for an iteration without work: a
\* command step that finds no command and a read without data leave the
\* events as they are.  Every step publishes at most one event, and each
\* event has its cause: Activated (the first event), a message event for a
\* data message read, Error for a failed command, ConnectionClosed / Error
\* for the read that ends the loop, Quit on the way out.  So the events never
\* outnumber one Activated plus the messages read, the failed commands and
\* the terminal events, and none of them is an idle or poll notification.
C39_NoIdleEvent ==
    [][ (strategy = "async") =>
          /\ (EmptyFetch /\ pc' # pc) => trace' = trace
          /\ NoDataRead => (trace' = trace /\ pc' = "cmd")
          /\ trace' # trace =>
                /\ Len(trace') = Len(trace) + 1 /\ TraceKept
                /\ \/ AddedSignal.k = "Activated" /\ trace = <<>>
                   \/ AddedSignal.k \in MessageEvents /\ DataReadStep
                   \/ AddedSignal.k = "Error" /\ FailedCommandStep
                   \/ AddedSignal.k \in Terminal /\ TerminalReadStep
                   \/ AddedSignal.k = "Quit" /\ pc' = "done" /\ CountOf({"Quit"}) = 0 ]_vars

C39_Witness ==
    /\ strategy = "async" /\ clientAlive /\ eventRxAlive
    /\ pc = "cmd" /\ iter = 2 /\ control = <<>> /\ inbound = <<>>
    /\ last = Op("read", "TimedOut", "")
    /\ trace = <<Ev("Activated", 0), Ev("BinaryMessage", 1)>>

====
